---- MODULE Spec2Model ----
(***************************************************************************)
(* Instruction-encoding layer of ic-spl: every builder is a pure function  *)
(* from typed arguments to Instruction values                              *)
(*   [program_id, accounts : Seq(AccountMeta), data : Seq(byte)].          *)
(* The state machine has one action per builder: the action draws the      *)
(* arguments from bounded sets, runs the builder as the source computes it *)
(* and records the call and what it returned.                              *)
(***************************************************************************)
EXTENDS Integers, Sequences, FiniteSets, TLC

VARIABLES
    call,   \* the last call: [fn |-> name of the builder, ... its arguments]
    ret,    \* its outcome: [panicked |-> BOOLEAN, ixs |-> Seq(Instruction)]
    builder \* the staged builder the caller holds, if any: its kind and fields

vars == <<call, ret, builder>>

(***************************************************************************)
(* Bounds of the model                                                     *)
(***************************************************************************)
\* longest signer_pubkeys slice / remaining-accounts slice
MaxSigners == 2
\* longest additional_metadata list
MaxPairs == 2
\* longest ordered extension request
MaxRequest == 2
\* optional fields and remaining accounts a staged builder holds at once
MaxOptional == 2
\* longest recipient list of transfer_many
MaxRecipients == 2

(***************************************************************************)
(* Public keys: a Pubkey is its 32 bytes.                                  *)
(***************************************************************************)
Key(n) == [i \in 1..32 |-> n]

\* caller-side keys used as arguments
UserKeys == {Key(1), Key(2), Key(3)}

system_program_id ==
    <<0, 0, 0, 0, 0, 0, 0, 0, 0, 0, 0, 0, 0, 0, 0, 0,
      0, 0, 0, 0, 0, 0, 0, 0, 0, 0, 0, 0, 0, 0, 0, 0>>

compute_budget_id ==
    <<3, 6, 70, 111, 229, 33, 23, 50, 255, 236, 173, 186, 114, 195, 155, 231,
      188, 140, 229, 187, 197, 247, 18, 107, 44, 67, 155, 58, 64, 0, 0, 0>>

sysvar_program_id ==
    <<6, 167, 213, 23, 24, 123, 209, 102, 53, 218, 212, 4, 85, 253, 194, 192,
      193, 36, 198, 143, 33, 86, 117, 165, 219, 186, 203, 95, 8, 0, 0, 0>>

token_program_id ==
    <<6, 221, 246, 225, 215, 101, 161, 147, 217, 203, 225, 70, 206, 235, 121, 172,
      28, 180, 133, 237, 95, 91, 55, 145, 58, 140, 245, 133, 126, 255, 0, 169>>

token22_program_id ==
    <<6, 221, 246, 225, 238, 117, 143, 222, 24, 66, 93, 188, 228, 108, 205, 218,
      182, 26, 252, 77, 131, 185, 13, 39, 254, 189, 249, 40, 216, 161, 139, 252>>

associated_account_program_id ==
    <<140, 151, 37, 143, 78, 36, 137, 241, 187, 61, 16, 41, 20, 142, 13, 131,
      11, 90, 19, 153, 218, 255, 16, 132, 4, 142, 123, 216, 219, 233, 248, 89>>

metadata_program_id ==
    <<11, 112, 101, 177, 227, 209, 124, 69, 56, 157, 82, 127, 107, 4, 195, 205,
      88, 184, 108, 115, 26, 160, 253, 181, 73, 182, 209, 188, 3, 248, 41, 70>>

\* the rent sysvar, "SysvarRent111111111111111111111111111111111"
SYSVAR_ID ==
    <<6, 167, 213, 23, 25, 44, 92, 81, 33, 140, 201, 76, 61, 74, 241, 127,
      88, 218, 238, 8, 155, 161, 253, 68, 227, 219, 217, 138, 0, 0, 0, 0>>

(***************************************************************************)
(* Option<T>                                                               *)
(***************************************************************************)
None == [some |-> FALSE]
Some(v) == [some |-> TRUE, val |-> v]
OptionOf(S) == {None} \cup {Some(v) : v \in S}

(***************************************************************************)
(* Textual addresses.  Pubkey::from_str decodes base58 text; a text that   *)
(* is not a 32-byte base58 encoding is an error.  The texts the model      *)
(* passes are the encodings of Key(1) and Key(2) and two malformed ones.   *)
(***************************************************************************)
AddrText == {"4vJ9JU1bJJE96FWSJKvHsmmFADCg4gpZQff4P3bkLKi",
             "8qbHbw2BbbTHBW1sbeqakYXVKRQM8Ne7pLK7m6CVfeR",
             "not-base58!", ""}

Pubkey_from_str(s) ==
    CASE s = "4vJ9JU1bJJE96FWSJKvHsmmFADCg4gpZQff4P3bkLKi" -> [ok |-> TRUE, key |-> Key(1)]
      [] s = "8qbHbw2BbbTHBW1sbeqakYXVKRQM8Ne7pLK7m6CVfeR" -> [ok |-> TRUE, key |-> Key(2)]
      [] OTHER -> [ok |-> FALSE]

(***************************************************************************)
(* Account references                                                      *)
(***************************************************************************)
AccountMeta_new(pubkey, is_signer) ==
    [pubkey |-> pubkey, is_signer |-> is_signer, is_writable |-> TRUE]

AccountMeta_new_readonly(pubkey, is_signer) ==
    [pubkey |-> pubkey, is_signer |-> is_signer, is_writable |-> FALSE]

Instruction(program_id, accounts, data) ==
    [program_id |-> program_id, accounts |-> accounts, data |-> data]

\* a call that returned its instructions / a call that panicked
Returned(ixs) == [panicked |-> FALSE, ixs |-> ixs]
Panicked == [panicked |-> TRUE, ixs |-> <<>>]
\* a call that returned a number rather than instructions
ReturnedValue(v) == [panicked |-> FALSE, ixs |-> <<>>, value |-> v]

(***************************************************************************)
(* Binary codec: little-endian fixed-width integers, length-prefixed       *)
(* strings and sequences, one-byte Option flag, one-byte enum tag (borsh); *)
(* four-byte enum tag (bincode, base-ledger instructions).                 *)
(***************************************************************************)
RECURSIVE to_le_bytes(_, _)
to_le_bytes(v, width) ==
    IF width = 0 THEN <<>>
    ELSE <<v % 256>> \o to_le_bytes(v \div 256, width - 1)

RECURSIVE from_le_bytes(_)
from_le_bytes(bytes) ==
    IF bytes = <<>> THEN 0
    ELSE Head(bytes) + 256 * from_le_bytes(Tail(bytes))

\* the concatenation of a sequence of byte strings
RECURSIVE Flatten(_)
Flatten(seqs) ==
    IF seqs = <<>> THEN <<>> ELSE Head(seqs) \o Flatten(Tail(seqs))

borsh_u8(v) == <<v>>
borsh_u16(v) == to_le_bytes(v, 2)
borsh_u32(v) == to_le_bytes(v, 4)
borsh_u64(v) == to_le_bytes(v, 8)
borsh_bool(b) == IF b THEN <<1>> ELSE <<0>>
borsh_string(s) == borsh_u32(Len(s)) \o s
borsh_pubkey(k) == k

\* strings are their UTF-8 bytes
StrX == <<88>>
StrU == <<117>>
StrKey == <<107, 49>>
StrVal == <<118>>
Strings == {<<>>, StrX, StrU, StrKey}

\* u32 / u64 argument values (TLC integers are 32-bit signed)
U32Values == {0, 1, 255, 256, 1000, 50000, 65535, 65536, 999999, 16777216, 2147483647}
U64Values == {0, 1, 255, 1000, 65536, 999999, 2147483647}

(***************************************************************************)
(* utils.rs                                                                *)
(***************************************************************************)
\* `data` is the value already run through borsh::to_vec
new_with_borsh(program_id, data, accounts) ==
    Instruction(program_id, accounts, data)

(***************************************************************************)
(* compute_budget.rs: enum ComputeBudgetInstruction, borsh-encoded as the  *)
(* variant's index in declaration order followed by its field.             *)
(***************************************************************************)
ComputeBudgetVariants ==
    <<"RequestUnitsDeprecated", "RequestHeapFrame", "SetComputeUnitLimit",
      "SetComputeUnitPrice", "SetLoadedAccountsDataSizeLimit">>

\* zero-based position of a variant name in an enum's declaration
VariantIndex(variants, name) ==
    (CHOOSE i \in 1..Len(variants) : variants[i] = name) - 1

\* faulty variant: the argument is written before the variant tag
ComputeBudgetInstruction_serialize_tag_last(variant, value) ==
    (IF variant = "RequestUnitsDeprecated" THEN borsh_u32(value[1]) \o borsh_u32(value[2])
     ELSE IF variant = "SetComputeUnitPrice" THEN borsh_u64(value) ELSE borsh_u32(value))
    \o borsh_u8(VariantIndex(ComputeBudgetVariants, variant))

\* RequestUnitsDeprecated has two u32 fields, passed as a pair
ComputeBudgetInstruction_serialize(variant, value) ==
    borsh_u8(VariantIndex(ComputeBudgetVariants, variant))
    \o (IF variant = "RequestUnitsDeprecated" THEN borsh_u32(value[1]) \o borsh_u32(value[2])
        ELSE IF variant = "SetComputeUnitPrice" THEN borsh_u64(value) ELSE borsh_u32(value))

request_heap_frame(bytes) ==
    new_with_borsh(compute_budget_id,
                   ComputeBudgetInstruction_serialize("RequestHeapFrame", bytes), <<>>)

\* faulty variant: the limit is written as a u64
set_compute_unit_limit_wide(units) ==
    new_with_borsh(compute_budget_id,
                   ComputeBudgetInstruction_serialize("SetComputeUnitPrice", units), <<>>)

set_compute_unit_limit(units) ==
    new_with_borsh(compute_budget_id,
                   ComputeBudgetInstruction_serialize("SetComputeUnitLimit", units), <<>>)

set_compute_unit_price(micro_lamports) ==
    new_with_borsh(compute_budget_id,
                   ComputeBudgetInstruction_serialize("SetComputeUnitPrice", micro_lamports), <<>>)

set_loaded_accounts_data_size_limit(bytes) ==
    new_with_borsh(compute_budget_id,
                   ComputeBudgetInstruction_serialize("SetLoadedAccountsDataSizeLimit", bytes), <<>>)

(***************************************************************************)
(* token_instruction.rs                                                    *)
(***************************************************************************)
\* COption-style authority field: flag byte, then the key when present
OptionalAuthority(opt) ==
    IF opt.some THEN <<1>> \o opt.val ELSE <<0>>

initialize_mint(token_program, mint_pubkey, mint_authority_pubkey, freeze_authority_pubkey, decimals) ==
    Instruction(token_program,
                <<AccountMeta_new(mint_pubkey, FALSE),
                  AccountMeta_new_readonly(SYSVAR_ID, FALSE)>>,
                <<0, decimals>> \o mint_authority_pubkey
                    \o OptionalAuthority(freeze_authority_pubkey))

\* faulty variant: the rent sysvar is still passed
initialize_mint2_with_rent(token_program, mint_pubkey, mint_authority_pubkey, freeze_authority_pubkey, decimals) ==
    Instruction(token_program,
                <<AccountMeta_new(mint_pubkey, FALSE),
                  AccountMeta_new_readonly(SYSVAR_ID, FALSE)>>,
                <<20, decimals>> \o mint_authority_pubkey
                    \o OptionalAuthority(freeze_authority_pubkey))

initialize_mint2(token_program, mint_pubkey, mint_authority_pubkey, freeze_authority_pubkey, decimals) ==
    Instruction(token_program,
                <<AccountMeta_new(mint_pubkey, FALSE)>>,
                <<20, decimals>> \o mint_authority_pubkey
                    \o OptionalAuthority(freeze_authority_pubkey))

\* faulty variant: the owner signs even when cosigners are given
OwnerAndSigners_owner_signs(owner_pubkey, signer_pubkeys) ==
    <<AccountMeta_new_readonly(owner_pubkey, TRUE)>>
    \o [i \in 1..Len(signer_pubkeys) |-> AccountMeta_new_readonly(signer_pubkeys[i], TRUE)]

\* the multisig tail shared by mint_to, close_account and freeze_account:
\* the owner entry, then one read-only signer per signer_pubkey
OwnerAndSigners(owner_pubkey, signer_pubkeys) ==
    <<AccountMeta_new_readonly(owner_pubkey, signer_pubkeys = <<>>)>>
    \o [i \in 1..Len(signer_pubkeys) |-> AccountMeta_new_readonly(signer_pubkeys[i], TRUE)]

mint_to(token_program, mint_pubkey, account_pubkey, owner_pubkey, signer_pubkeys, amount) ==
    Instruction(token_program,
                <<AccountMeta_new(mint_pubkey, FALSE),
                  AccountMeta_new(account_pubkey, FALSE)>>
                \o OwnerAndSigners(owner_pubkey, signer_pubkeys),
                <<7>> \o to_le_bytes(amount, 8))

initialize_mint_close_authority(token_mint, close_authority) ==
    Instruction(token22_program_id,
                <<AccountMeta_new(token_mint, FALSE)>>,
                <<25>> \o OptionalAuthority(close_authority))

initialize_metadata_pointer(token_mint, metadata_addr, authority) ==
    Instruction(token22_program_id,
                <<AccountMeta_new(token_mint, FALSE)>>,
                <<39, 0>> \o authority \o metadata_addr)

close_account(token_program, account_pubkey, destination_pubkey, owner_pubkey, signer_pubkeys) ==
    Instruction(token_program,
                <<AccountMeta_new(account_pubkey, FALSE),
                  AccountMeta_new(destination_pubkey, FALSE)>>
                \o OwnerAndSigners(owner_pubkey, signer_pubkeys),
                <<9>>)

freeze_account(token_program, account_pubkey, mint_pubkey, owner_pubkey, signer_pubkeys) ==
    Instruction(token_program,
                <<AccountMeta_new(account_pubkey, FALSE),
                  AccountMeta_new_readonly(mint_pubkey, FALSE)>>
                \o OwnerAndSigners(owner_pubkey, signer_pubkeys),
                <<10>>)

(***************************************************************************)
(* system_instruction.rs: SystemInstruction is bincode-encoded, a         *)
(* four-byte little-endian variant index followed by the fields.          *)
(***************************************************************************)
SystemInstruction_CreateAccount(lamports, space, owner) ==
    to_le_bytes(0, 4) \o to_le_bytes(lamports, 8) \o to_le_bytes(space, 8) \o owner

create_account(from_pubkey, to_pubkey, lamports, space, owner) ==
    Instruction(system_program_id,
                <<AccountMeta_new(from_pubkey, TRUE), AccountMeta_new(to_pubkey, TRUE)>>,
                SystemInstruction_CreateAccount(lamports, space, owner))

\* enum SystemInstruction, in declaration order
SystemInstructionVariants ==
    <<"CreateAccount", "Assign", "Transfer", "CreateAccountWithSeed",
      "AdvanceNonceAccount", "WithdrawNonceAccount", "InitializeNonceAccount",
      "AuthorizeNonceAccount", "Allocate", "AllocateWithSeed", "AssignWithSeed",
      "TransferWithSeed", "UpgradeNonceAccount">>

\* faulty variant: the variant index is written as one byte
bincode_variant_one_byte(variant) ==
    <<VariantIndex(SystemInstructionVariants, variant)>>

\* bincode writes an enum's variant index as a u32
bincode_variant(variant) ==
    to_le_bytes(VariantIndex(SystemInstructionVariants, variant), 4)

\* bincode writes a String as its u64 length and its bytes
bincode_string(str) == to_le_bytes(Len(str), 8) \o str

\* faulty variant: the created account is listed as a signer
create_account_with_seed_to_signs(from_pubkey, to_pubkey, base, seed, lamports, space, owner) ==
    Instruction(system_program_id,
                <<AccountMeta_new(from_pubkey, TRUE),
                  AccountMeta_new(to_pubkey, TRUE),
                  AccountMeta_new_readonly(base, TRUE)>>,
                bincode_variant("CreateAccountWithSeed") \o base \o bincode_string(seed)
                    \o to_le_bytes(lamports, 8) \o to_le_bytes(space, 8) \o owner)

create_account_with_seed(from_pubkey, to_pubkey, base, seed, lamports, space, owner) ==
    Instruction(system_program_id,
                <<AccountMeta_new(from_pubkey, TRUE),
                  AccountMeta_new(to_pubkey, FALSE),
                  AccountMeta_new_readonly(base, TRUE)>>,
                bincode_variant("CreateAccountWithSeed") \o base \o bincode_string(seed)
                    \o to_le_bytes(lamports, 8) \o to_le_bytes(space, 8) \o owner)

assign(pubkey, owner) ==
    Instruction(system_program_id,
                <<AccountMeta_new(pubkey, TRUE)>>,
                bincode_variant("Assign") \o owner)

assign_with_seed(address, base, seed, owner) ==
    Instruction(system_program_id,
                <<AccountMeta_new(address, FALSE), AccountMeta_new_readonly(base, TRUE)>>,
                bincode_variant("AssignWithSeed") \o base \o bincode_string(seed) \o owner)

transfer(from_pubkey, to_pubkey, lamports) ==
    Instruction(system_program_id,
                <<AccountMeta_new(from_pubkey, TRUE), AccountMeta_new(to_pubkey, FALSE)>>,
                bincode_variant("Transfer") \o to_le_bytes(lamports, 8))

transfer_with_seed(from_pubkey, from_base, from_seed, from_owner, to_pubkey, lamports) ==
    Instruction(system_program_id,
                <<AccountMeta_new(from_pubkey, FALSE),
                  AccountMeta_new_readonly(from_base, TRUE),
                  AccountMeta_new(to_pubkey, FALSE)>>,
                bincode_variant("TransferWithSeed") \o to_le_bytes(lamports, 8)
                    \o bincode_string(from_seed) \o from_owner)

allocate(pubkey, space) ==
    Instruction(system_program_id,
                <<AccountMeta_new(pubkey, TRUE)>>,
                bincode_variant("Allocate") \o to_le_bytes(space, 8))

allocate_with_seed(address, base, seed, space, owner) ==
    Instruction(system_program_id,
                <<AccountMeta_new(address, FALSE), AccountMeta_new_readonly(base, TRUE)>>,
                bincode_variant("AllocateWithSeed") \o base \o bincode_string(seed)
                    \o to_le_bytes(space, 8) \o owner)

\* faulty variant: the transfers come out last recipient first
transfer_many_reversed(from_pubkey, to_lamports) ==
    [i \in 1..Len(to_lamports) |->
        transfer(from_pubkey, to_lamports[Len(to_lamports) + 1 - i][1],
                 to_lamports[Len(to_lamports) + 1 - i][2])]

\* to_lamports.iter().map(transfer).collect()
transfer_many(from_pubkey, to_lamports) ==
    [i \in 1..Len(to_lamports) |->
        transfer(from_pubkey, to_lamports[i][1], to_lamports[i][2])]

(***************************************************************************)
(* token_metadata.rs                                                       *)
(***************************************************************************)
InitializeDiscriminator == <<210, 225, 30, 162, 88, 184, 77, 141>>
UpdateFieldDiscriminator == <<221, 233, 49, 45, 181, 202, 220, 200>>

\* enum Field { Name, Symbol, Uri, Key(String) }
Field_Key(key) == [variant |-> "Key", key |-> key]
Field_serialize(field) ==
    CASE field.variant = "Name" -> <<0>>
      [] field.variant = "Symbol" -> <<1>>
      [] field.variant = "Uri" -> <<2>>
      [] field.variant = "Key" -> <<3>> \o borsh_string(field.key)

initialize(program_id, metadata, update_authority, mint, mint_authority, name, symbol, uri) ==
    Instruction(program_id,
                <<AccountMeta_new(metadata, FALSE),
                  AccountMeta_new_readonly(update_authority, FALSE),
                  AccountMeta_new_readonly(mint, FALSE),
                  AccountMeta_new_readonly(mint_authority, TRUE)>>,
                InitializeDiscriminator
                    \o borsh_string(name) \o borsh_string(symbol) \o borsh_string(uri))

update_field(program_id, metadata, update_authority, field, value) ==
    Instruction(program_id,
                <<AccountMeta_new(metadata, FALSE),
                  AccountMeta_new_readonly(update_authority, TRUE)>>,
                UpdateFieldDiscriminator \o Field_serialize(field) \o borsh_string(value))

\* struct TokenMetadata, as the writes its derived BorshSerialize makes: the
\* two keys, then each string as its u32 length and its bytes, then the
\* pairs as their u32 count and, for each pair, its two strings
TokenMetadata_serialize(self) ==
    <<borsh_pubkey(self.update_authority), borsh_pubkey(self.mint),
      borsh_u32(Len(self.name)), self.name,
      borsh_u32(Len(self.symbol)), self.symbol,
      borsh_u32(Len(self.uri)), self.uri,
      borsh_u32(Len(self.additional_metadata))>>
    \o Flatten([i \in 1..Len(self.additional_metadata) |->
                    <<borsh_u32(Len(self.additional_metadata[i][1])),
                      self.additional_metadata[i][1],
                      borsh_u32(Len(self.additional_metadata[i][2])),
                      self.additional_metadata[i][2]>>])

\* borsh::to_vec: the writes, one after the other
borsh_to_vec(writes) == Flatten(writes)

\* WriteCounter: each write adds the length of its data to the count
RECURSIVE WriteCounter_write(_, _)
WriteCounter_write(count, writes) ==
    IF writes = <<>> THEN count
    ELSE WriteCounter_write(count + Len(Head(writes)), Tail(writes))

\* faulty variant: the writes are counted, not their bytes
get_instance_packed_len_counting_writes(instance) ==
    Len(TokenMetadata_serialize(instance))

get_instance_packed_len(instance) ==
    WriteCounter_write(0, TokenMetadata_serialize(instance))

\* 10usize.checked_add(..): the sum cannot leave usize for a record held in
\* memory, so the result is always Ok
tlv_size_of(self) == 10 + get_instance_packed_len(self)

(***************************************************************************)
(* Program-derived addresses.  Pubkey::find_program_address hashes the    *)
(* seeds in order, a bump byte and the program id.  The model keeps that   *)
(* shape with a position-weighted sum in place of SHA-256 and the first    *)
(* bump tried (255); the address is the digest as 32 little-endian bytes.  *)
(***************************************************************************)
RECURSIVE Digest(_, _, _)
Digest(bytes, lo, hi) ==
    IF lo > hi THEN 0
    ELSE IF lo = hi THEN lo * (bytes[lo] + 1)
    ELSE LET mid == (lo + hi) \div 2
         IN  Digest(bytes, lo, mid) + Digest(bytes, mid + 1, hi)

find_program_address(seeds, program_id) ==
    LET preimage == Flatten(seeds) \o <<255>> \o program_id
    IN  to_le_bytes(Digest(preimage, 1, Len(preimage)), 32)

(***************************************************************************)
(* associated_account.rs                                                   *)
(***************************************************************************)
AssociatedTokenAccountVariants == <<"Create", "CreateIdempotent", "RecoverNested">>

AssociatedTokenAccountInstruction_serialize(instruction) ==
    borsh_u8(VariantIndex(AssociatedTokenAccountVariants, instruction))

\* faulty variant: the mint is hashed ahead of the token program
get_associated_token_address_and_bump_seed_internal_mint_first(wallet_address, token_mint_address, program_id, token_program) ==
    find_program_address(<<wallet_address, token_mint_address, token_program>>, program_id)

get_associated_token_address_and_bump_seed_internal(wallet_address, token_mint_address, program_id, token_program) ==
    find_program_address(<<wallet_address, token_program, token_mint_address>>, program_id)

get_associated_token_address_with_program_id(wallet_address, token_mint_address, token_program) ==
    get_associated_token_address_and_bump_seed_internal(
        wallet_address, token_mint_address, associated_account_program_id, token_program)

\* faulty variant: the idempotent form derives the address from the funding account
build_associated_token_account_instruction_funding_seed(funding_address, wallet_address, token_mint_address, token_program, instruction) ==
    Instruction(associated_account_program_id,
                <<AccountMeta_new(funding_address, TRUE),
                  AccountMeta_new(
                      get_associated_token_address_with_program_id(
                          IF instruction = "CreateIdempotent" THEN funding_address
                          ELSE wallet_address,
                          token_mint_address, token_program), FALSE),
                  AccountMeta_new_readonly(wallet_address, FALSE),
                  AccountMeta_new_readonly(token_mint_address, FALSE),
                  AccountMeta_new_readonly(system_program_id, FALSE),
                  AccountMeta_new_readonly(token_program, FALSE)>>,
                AssociatedTokenAccountInstruction_serialize(instruction))

build_associated_token_account_instruction(funding_address, wallet_address, token_mint_address, token_program, instruction) ==
    Instruction(associated_account_program_id,
                <<AccountMeta_new(funding_address, TRUE),
                  AccountMeta_new(
                      get_associated_token_address_with_program_id(
                          wallet_address, token_mint_address, token_program), FALSE),
                  AccountMeta_new_readonly(wallet_address, FALSE),
                  AccountMeta_new_readonly(token_mint_address, FALSE),
                  AccountMeta_new_readonly(system_program_id, FALSE),
                  AccountMeta_new_readonly(token_program, FALSE)>>,
                AssociatedTokenAccountInstruction_serialize(instruction))

\* faulty variant: the wallet is listed as the funding account
create_associated_token_account_wallet_pays(funding_address, wallet_address, token_mint_address, token_program) ==
    build_associated_token_account_instruction(
        wallet_address, wallet_address, token_mint_address, token_program, "Create")

create_associated_token_account(funding_address, wallet_address, token_mint_address, token_program) ==
    build_associated_token_account_instruction(
        funding_address, wallet_address, token_mint_address, token_program, "Create")

create_associated_token_account_idempotent(funding_address, wallet_address, token_mint_address, token_program) ==
    build_associated_token_account_instruction(
        funding_address, wallet_address, token_mint_address, token_program,
        "CreateIdempotent")

(***************************************************************************)
(* metaplex/types.rs: borsh encodings of the metadata program's arguments  *)
(***************************************************************************)
borsh_option(is_some, some_bytes) ==
    IF is_some THEN <<1>> \o some_bytes ELSE <<0>>

borsh_vec(item_bytes) ==
    borsh_u32(Len(item_bytes)) \o Flatten(item_bytes)

\* struct Creator { address, verified, share }
Creator_serialize(c) ==
    borsh_pubkey(c.address) \o borsh_bool(c.verified) \o borsh_u8(c.share)

Creators_serialize(cs) == borsh_vec([i \in 1..Len(cs) |-> Creator_serialize(cs[i])])

\* struct Collection { verified, key }
Collection_serialize(c) == borsh_bool(c.verified) \o borsh_pubkey(c.key)

\* enum CollectionDetails { V1 { size: u64 }, V2 { padding: [u8; 8] } }
CollectionDetails_serialize(d) ==
    IF d.variant = "V1" THEN <<0>> \o borsh_u64(d.size) ELSE <<1>> \o d.padding

UseMethodVariants == <<"Burn", "Multiple", "Single">>

\* struct Uses { use_method, remaining, total }
Uses_serialize(u) ==
    borsh_u8(VariantIndex(UseMethodVariants, u.use_method))
    \o borsh_u64(u.remaining) \o borsh_u64(u.total)

\* enum PrintSupply { Zero, Limited(u64), Unlimited }
PrintSupply_serialize(p) ==
    CASE p.variant = "Zero" -> <<0>>
      [] p.variant = "Limited" -> <<1>> \o borsh_u64(p.limit)
      [] p.variant = "Unlimited" -> <<2>>

TokenStandardVariants ==
    <<"NonFungible", "FungibleAsset", "Fungible", "NonFungibleEdition",
      "ProgrammableNonFungible", "ProgrammableNonFungibleEdition">>

\* enum CreateArgs { V1 { ... } }
CreateArgs_serialize(a) ==
    <<0>>
    \o borsh_string(a.name) \o borsh_string(a.symbol) \o borsh_string(a.uri)
    \o borsh_u16(a.seller_fee_basis_points)
    \o borsh_option(a.creators.some, Creators_serialize(a.creators.val))
    \o borsh_bool(a.primary_sale_happened)
    \o borsh_bool(a.is_mutable)
    \o borsh_u8(VariantIndex(TokenStandardVariants, a.token_standard))
    \o borsh_option(a.collection.some, Collection_serialize(a.collection.val))
    \o borsh_option(a.uses.some, Uses_serialize(a.uses.val))
    \o borsh_option(a.collection_details.some, CollectionDetails_serialize(a.collection_details.val))
    \o borsh_option(a.rule_set.some, borsh_pubkey(a.rule_set.val))
    \o borsh_option(a.decimals.some, borsh_u8(a.decimals.val))
    \o borsh_option(a.print_supply.some, PrintSupply_serialize(a.print_supply.val))

\* struct Data { name, symbol, uri, seller_fee_basis_points, creators }
Data_serialize(d) ==
    borsh_string(d.name) \o borsh_string(d.symbol) \o borsh_string(d.uri)
    \o borsh_u16(d.seller_fee_basis_points)
    \o borsh_option(d.creators.some, Creators_serialize(d.creators.val))

\* the toggles: enum { None, Clear, Set(T) }
Toggle_None == [variant |-> "None"]
Toggle_Clear == [variant |-> "Clear"]
Toggle_Set(v) == [variant |-> "Set", val |-> v]

\* faulty variant: a None toggle is left out of the payload
Toggle_serialize_omitting(t, set_bytes) ==
    CASE t.variant = "None" -> <<>>
      [] t.variant = "Clear" -> <<1>>
      [] t.variant = "Set" -> <<2>> \o set_bytes

Toggle_serialize(t, set_bytes) ==
    CASE t.variant = "None" -> <<0>>
      [] t.variant = "Clear" -> <<1>>
      [] t.variant = "Set" -> <<2>> \o set_bytes

CollectionToggle_serialize(t) == Toggle_serialize(t, Collection_serialize(t.val))
CollectionDetailsToggle_serialize(t) == Toggle_serialize(t, CollectionDetails_serialize(t.val))
UsesToggle_serialize(t) == Toggle_serialize(t, Uses_serialize(t.val))
RuleSetToggle_serialize(t) == Toggle_serialize(t, borsh_pubkey(t.val))

\* enum PayloadType { Pubkey, Seeds, MerkleProof, Number }; the model passes
\* the Pubkey and Number variants
PayloadType_serialize(v) ==
    IF v.variant = "Pubkey" THEN <<0>> \o borsh_pubkey(v.key)
    ELSE <<3>> \o borsh_u64(v.number)

PayloadEntry_serialize(e) == borsh_string(e.key) \o PayloadType_serialize(e.value)

\* String's ordering: byte by byte, a proper prefix first
RECURSIVE str_lt(_, _)
str_lt(a, b) ==
    IF b = <<>> THEN FALSE
    ELSE IF a = <<>> THEN TRUE
    ELSE IF Head(a) # Head(b) THEN Head(a) < Head(b)
    ELSE str_lt(Tail(a), Tail(b))

\* borsh collects a HashMap's entries and sorts them by key before it writes
\* them: the i-th written entry is the one with i - 1 smaller keys
sort_by_key(entries) ==
    [i \in 1..Len(entries) |->
        CHOOSE e \in {entries[j] : j \in 1..Len(entries)} :
            Cardinality({j \in 1..Len(entries) : str_lt(entries[j].key, e.key)}) = i - 1]

\* faulty variant: the entries are written in the map's iteration order
AuthorizationData_serialize_iteration_order(a) ==
    borsh_vec([i \in 1..Len(a.payload.map) |-> PayloadEntry_serialize(a.payload.map[i])])

\* struct AuthorizationData { payload: Payload { map: HashMap<String, PayloadType> } };
\* a HashMap is held as its entries in the order its iterator yields them,
\* which differs from one map to an equal one
AuthorizationData_serialize(a) ==
    borsh_vec([i \in 1..Len(a.payload.map) |->
                  PayloadEntry_serialize(sort_by_key(a.payload.map)[i])])

UpdateV1InstructionArgs_serialize(a) ==
    borsh_option(a.new_update_authority.some, borsh_pubkey(a.new_update_authority.val))
    \o borsh_option(a.data.some, Data_serialize(a.data.val))
    \o borsh_option(a.primary_sale_happened.some, borsh_bool(a.primary_sale_happened.val))
    \o borsh_option(a.is_mutable.some, borsh_bool(a.is_mutable.val))
    \o CollectionToggle_serialize(a.collection)
    \o CollectionDetailsToggle_serialize(a.collection_details)
    \o UsesToggle_serialize(a.uses)
    \o RuleSetToggle_serialize(a.rule_set)
    \o borsh_option(a.authorization_data.some, AuthorizationData_serialize(a.authorization_data.val))

(***************************************************************************)
(* metaplex/mod.rs: account lists of Create and UpdateV1                   *)
(***************************************************************************)
\* an optional read-only account: the caller's key, or the metadata
\* program's own id as the placeholder
OptionalReadonly(opt) ==
    IF opt.some THEN AccountMeta_new_readonly(opt.val, FALSE)
    ELSE AccountMeta_new_readonly(metadata_program_id, FALSE)

\* faulty variant: an eight-byte tag
CreateInstructionData_new_eight_bytes == <<42, 0, 0, 0, 0, 0, 0, 0>>

CreateInstructionData_new == <<42>>
UpdateV1InstructionData_new == <<50, 0>>

\* faulty variant: an absent master_edition is skipped instead of filled in
Create_instruction_with_remaining_accounts_no_placeholder(self, args, remaining_accounts) ==
    Instruction(
        metadata_program_id,
        <<AccountMeta_new(self.metadata, FALSE)>>
        \o (IF self.master_edition.some
            THEN <<AccountMeta_new(self.master_edition.val, FALSE)>>
            ELSE <<>>)
        \o <<AccountMeta_new(self.mint[1], self.mint[2]),
             AccountMeta_new_readonly(self.authority, TRUE),
             AccountMeta_new(self.payer, TRUE),
             AccountMeta_new_readonly(self.update_authority[1], self.update_authority[2]),
             AccountMeta_new_readonly(self.system_program, FALSE),
             AccountMeta_new_readonly(self.sysvar_instructions, FALSE),
             OptionalReadonly(self.spl_token_program)>>
        \o remaining_accounts,
        CreateInstructionData_new \o CreateArgs_serialize(args.create_args))

Create_instruction_with_remaining_accounts(self, args, remaining_accounts) ==
    Instruction(
        metadata_program_id,
        <<AccountMeta_new(self.metadata, FALSE),
          IF self.master_edition.some
          THEN AccountMeta_new(self.master_edition.val, FALSE)
          ELSE AccountMeta_new_readonly(metadata_program_id, FALSE),
          AccountMeta_new(self.mint[1], self.mint[2]),
          AccountMeta_new_readonly(self.authority, TRUE),
          AccountMeta_new(self.payer, TRUE),
          AccountMeta_new_readonly(self.update_authority[1], self.update_authority[2]),
          AccountMeta_new_readonly(self.system_program, FALSE),
          AccountMeta_new_readonly(self.sysvar_instructions, FALSE),
          OptionalReadonly(self.spl_token_program)>>
        \o remaining_accounts,
        CreateInstructionData_new \o CreateArgs_serialize(args.create_args))

Create_instruction(self, args) ==
    Create_instruction_with_remaining_accounts(self, args, <<>>)

\* faulty variant: the token slot is dropped when no token account is given
UpdateV1_instruction_with_remaining_accounts_no_token_slot(self, args, remaining_accounts) ==
    Instruction(
        metadata_program_id,
        <<AccountMeta_new_readonly(self.authority, TRUE),
          OptionalReadonly(self.delegate_record)>>
        \o (IF self.token.some THEN <<OptionalReadonly(self.token)>> ELSE <<>>)
        \o <<AccountMeta_new_readonly(self.mint, FALSE),
             AccountMeta_new(self.metadata, FALSE),
             OptionalReadonly(self.edition),
             AccountMeta_new(self.payer, TRUE),
             AccountMeta_new_readonly(self.system_program, FALSE),
             AccountMeta_new_readonly(self.sysvar_instructions, FALSE),
             OptionalReadonly(self.authorization_rules_program),
             OptionalReadonly(self.authorization_rules)>>
        \o remaining_accounts,
        UpdateV1InstructionData_new \o UpdateV1InstructionArgs_serialize(args))

UpdateV1_instruction_with_remaining_accounts(self, args, remaining_accounts) ==
    Instruction(
        metadata_program_id,
        <<AccountMeta_new_readonly(self.authority, TRUE),
          OptionalReadonly(self.delegate_record),
          OptionalReadonly(self.token),
          AccountMeta_new_readonly(self.mint, FALSE),
          AccountMeta_new(self.metadata, FALSE),
          OptionalReadonly(self.edition),
          AccountMeta_new(self.payer, TRUE),
          AccountMeta_new_readonly(self.system_program, FALSE),
          AccountMeta_new_readonly(self.sysvar_instructions, FALSE),
          OptionalReadonly(self.authorization_rules_program),
          OptionalReadonly(self.authorization_rules)>>
        \o remaining_accounts,
        UpdateV1InstructionData_new \o UpdateV1InstructionArgs_serialize(args))

UpdateV1_instruction(self, args) ==
    UpdateV1_instruction_with_remaining_accounts(self, args, <<>>)

(***************************************************************************)
(* Decoding.  The derived BorshDeserialize of a type reads its fields in   *)
(* declaration order from the front of a buffer and fails when the buffer  *)
(* runs out or a tag is unknown; try_from_slice also fails when bytes are  *)
(* left over.  A read yields [ok, val, rest].                              *)
(***************************************************************************)
Err == [ok |-> FALSE]
Ok(val, rest) == [ok |-> TRUE, val |-> val, rest |-> rest]

read_bytes(buf, n) ==
    IF Len(buf) < n THEN Err
    ELSE Ok(SubSeq(buf, 1, n), SubSeq(buf, n + 1, Len(buf)))

read_int(buf, width) ==
    LET r == read_bytes(buf, width)
    IN  IF r.ok THEN Ok(from_le_bytes(r.val), r.rest) ELSE Err

read_bool(buf) ==
    LET r == read_int(buf, 1)
    IN  IF ~r.ok THEN Err
        ELSE IF r.val > 1 THEN Err
        ELSE Ok(r.val = 1, r.rest)

\* a String: its u32 length, then that many bytes, which must be UTF-8 (the
\* model's strings are ASCII)
read_string(buf) ==
    LET n == read_int(buf, 4)
    IN  IF ~n.ok THEN Err
        ELSE LET r == read_bytes(n.rest, n.val)
             IN  IF ~r.ok THEN Err
                 ELSE IF \E i \in 1..Len(r.val) : r.val[i] > 127 THEN Err
                 ELSE r

\* a decoded ComputeBudgetInstruction is its variant and its fields in order
\* faulty variant: every variant's field is read as a u32
ComputeBudgetInstruction_deserialize_narrow(buf) ==
    LET tag == read_int(buf, 1)
    IN  IF ~tag.ok THEN Err
        ELSE IF tag.val >= Len(ComputeBudgetVariants) THEN Err
        ELSE LET v == read_int(tag.rest, 4)
             IN  IF ~v.ok THEN Err
                 ELSE Ok([variant |-> ComputeBudgetVariants[tag.val + 1],
                          fields |-> <<v.val>>], v.rest)

ComputeBudgetInstruction_deserialize(buf) ==
    LET tag == read_int(buf, 1)
    IN  IF ~tag.ok THEN Err
        ELSE IF tag.val >= Len(ComputeBudgetVariants) THEN Err
        ELSE LET variant == ComputeBudgetVariants[tag.val + 1]
                 units == read_int(tag.rest, 4)
                 additional_fee == read_int(units.rest, 4)
                 v == read_int(tag.rest, IF variant = "SetComputeUnitPrice" THEN 8 ELSE 4)
             IN  IF variant = "RequestUnitsDeprecated"
                 THEN IF ~units.ok THEN Err
                      ELSE IF ~additional_fee.ok THEN Err
                      ELSE Ok([variant |-> variant,
                               fields |-> <<units.val, additional_fee.val>>],
                              additional_fee.rest)
                 ELSE IF ~v.ok THEN Err
                 ELSE Ok([variant |-> variant, fields |-> <<v.val>>], v.rest)

AssociatedTokenAccountInstruction_deserialize(buf) ==
    LET tag == read_int(buf, 1)
    IN  IF ~tag.ok THEN Err
        ELSE IF tag.val >= Len(AssociatedTokenAccountVariants) THEN Err
        ELSE Ok(AssociatedTokenAccountVariants[tag.val + 1], tag.rest)

Field_deserialize(buf) ==
    LET tag == read_int(buf, 1)
        key == read_string(tag.rest)
    IN  IF ~tag.ok THEN Err
        ELSE CASE tag.val = 0 -> Ok([variant |-> "Name"], tag.rest)
               [] tag.val = 1 -> Ok([variant |-> "Symbol"], tag.rest)
               [] tag.val = 2 -> Ok([variant |-> "Uri"], tag.rest)
               [] tag.val = 3 -> IF key.ok THEN Ok(Field_Key(key.val), key.rest) ELSE Err
               [] OTHER -> Err

\* struct UpdateField { field, value }
UpdateField_serialize(u) == Field_serialize(u.field) \o borsh_string(u.value)

UpdateField_deserialize(buf) ==
    LET field == Field_deserialize(buf)
        value == read_string(field.rest)
    IN  IF ~field.ok THEN Err
        ELSE IF ~value.ok THEN Err
        ELSE Ok([field |-> field.val, value |-> value.val], value.rest)

Collection_deserialize(buf) ==
    LET verified == read_bool(buf)
        key == read_bytes(verified.rest, 32)
    IN  IF ~verified.ok THEN Err
        ELSE IF ~key.ok THEN Err
        ELSE Ok([verified |-> verified.val, key |-> key.val], key.rest)

CollectionDetails_deserialize(buf) ==
    LET tag == read_int(buf, 1)
        size == read_int(tag.rest, 8)
        padding == read_bytes(tag.rest, 8)
    IN  IF ~tag.ok THEN Err
        ELSE CASE tag.val = 0 ->
                      IF size.ok THEN Ok([variant |-> "V1", size |-> size.val], size.rest)
                      ELSE Err
               [] tag.val = 1 ->
                      IF padding.ok
                      THEN Ok([variant |-> "V2", padding |-> padding.val], padding.rest)
                      ELSE Err
               [] OTHER -> Err

Uses_deserialize(buf) ==
    LET tag == read_int(buf, 1)
        remaining == read_int(tag.rest, 8)
        total == read_int(remaining.rest, 8)
    IN  IF ~tag.ok THEN Err
        ELSE IF tag.val >= Len(UseMethodVariants) THEN Err
        ELSE IF ~remaining.ok THEN Err
        ELSE IF ~total.ok THEN Err
        ELSE Ok([use_method |-> UseMethodVariants[tag.val + 1],
                 remaining |-> remaining.val, total |-> total.val], total.rest)

\* enum { None, Clear, Set(T) }; set is the reading of a T after the tag
Toggle_deserialize(buf, set) ==
    LET tag == read_int(buf, 1)
    IN  IF ~tag.ok THEN Err
        ELSE CASE tag.val = 0 -> Ok(Toggle_None, tag.rest)
               [] tag.val = 1 -> Ok(Toggle_Clear, tag.rest)
               [] tag.val = 2 -> IF set.ok THEN Ok(Toggle_Set(set.val), set.rest) ELSE Err
               [] OTHER -> Err

CollectionToggle_deserialize(buf) == Toggle_deserialize(buf, Collection_deserialize(Tail(buf)))
CollectionDetailsToggle_deserialize(buf) == Toggle_deserialize(buf, CollectionDetails_deserialize(Tail(buf)))
UsesToggle_deserialize(buf) == Toggle_deserialize(buf, Uses_deserialize(Tail(buf)))
RuleSetToggle_deserialize(buf) == Toggle_deserialize(buf, read_bytes(Tail(buf), 32))

CodecTypes ==
    {"ComputeBudgetInstruction", "AssociatedTokenAccountInstruction",
     "CollectionToggle", "CollectionDetailsToggle", "UsesToggle", "RuleSetToggle",
     "UpdateField"}

\* borsh::to_vec of a value of type T
to_vec(T, x) ==
    CASE T = "ComputeBudgetInstruction" ->
             ComputeBudgetInstruction_serialize(
                 x.variant,
                 IF x.variant = "RequestUnitsDeprecated" THEN x.fields ELSE x.fields[1])
      [] T = "AssociatedTokenAccountInstruction" ->
             AssociatedTokenAccountInstruction_serialize(x)
      [] T = "CollectionToggle" -> CollectionToggle_serialize(x)
      [] T = "CollectionDetailsToggle" -> CollectionDetailsToggle_serialize(x)
      [] T = "UsesToggle" -> UsesToggle_serialize(x)
      [] T = "RuleSetToggle" -> RuleSetToggle_serialize(x)
      [] T = "UpdateField" -> UpdateField_serialize(x)

deserialize(T, buf) ==
    CASE T = "ComputeBudgetInstruction" -> ComputeBudgetInstruction_deserialize(buf)
      [] T = "AssociatedTokenAccountInstruction" ->
             AssociatedTokenAccountInstruction_deserialize(buf)
      [] T = "CollectionToggle" -> CollectionToggle_deserialize(buf)
      [] T = "CollectionDetailsToggle" -> CollectionDetailsToggle_deserialize(buf)
      [] T = "UsesToggle" -> UsesToggle_deserialize(buf)
      [] T = "RuleSetToggle" -> RuleSetToggle_deserialize(buf)
      [] T = "UpdateField" -> UpdateField_deserialize(buf)

\* T::try_from_slice: a value is returned only when the whole slice was read
try_from_slice(T, v) ==
    LET result == deserialize(T, v)
    IN  IF ~result.ok THEN Err
        ELSE IF result.rest # <<>> THEN Err
        ELSE [ok |-> TRUE, val |-> result.val]

(***************************************************************************)
(* metaplex/mod.rs: the staged builders.  Every field starts unset         *)
(* (derive(Default)); instruction() takes the required fields with         *)
(* expect(), which panics on an unset field, and the two defaulted         *)
(* accounts with unwrap_or().                                              *)
(***************************************************************************)
NoBuilder == [kind |-> "none"]

\* faulty variant: the caller's value is ignored
unwrap_or_ignoring(opt, default) == default

unwrap_or(opt, default) == IF opt.some THEN opt.val ELSE default

CreateBuilder_new ==
    [kind |-> "CreateBuilder", metadata |-> None, master_edition |-> None,
     mint |-> None, authority |-> None, payer |-> None, update_authority |-> None,
     system_program |-> None, sysvar_instructions |-> None,
     spl_token_program |-> None, create_args |-> None,
     remaining_accounts |-> <<>>]

\* faulty variant: an unset update_authority falls back to the authority
CreateBuilder_instruction_lenient(self) ==
    IF \/ ~self.metadata.some \/ ~self.mint.some \/ ~self.authority.some
       \/ ~self.payer.some \/ ~self.create_args.some
    THEN Panicked
    ELSE Returned(<<Create_instruction_with_remaining_accounts(
                       [metadata |-> self.metadata.val,
                        master_edition |-> self.master_edition,
                        mint |-> self.mint.val,
                        authority |-> self.authority.val,
                        payer |-> self.payer.val,
                        update_authority |->
                            unwrap_or(self.update_authority, <<self.authority.val, TRUE>>),
                        system_program |-> unwrap_or(self.system_program, system_program_id),
                        sysvar_instructions |->
                            unwrap_or(self.sysvar_instructions, sysvar_program_id),
                        spl_token_program |-> self.spl_token_program],
                       [create_args |-> self.create_args.val],
                       self.remaining_accounts)>>)

CreateBuilder_instruction(self) ==
    IF \/ ~self.metadata.some \/ ~self.mint.some \/ ~self.authority.some
       \/ ~self.payer.some \/ ~self.update_authority.some \/ ~self.create_args.some
    THEN Panicked
    ELSE Returned(<<Create_instruction_with_remaining_accounts(
                       [metadata |-> self.metadata.val,
                        master_edition |-> self.master_edition,
                        mint |-> self.mint.val,
                        authority |-> self.authority.val,
                        payer |-> self.payer.val,
                        update_authority |-> self.update_authority.val,
                        system_program |-> unwrap_or(self.system_program, system_program_id),
                        sysvar_instructions |->
                            unwrap_or(self.sysvar_instructions, sysvar_program_id),
                        spl_token_program |-> self.spl_token_program],
                       [create_args |-> self.create_args.val],
                       self.remaining_accounts)>>)

UpdateV1Builder_new ==
    [kind |-> "UpdateV1Builder", authority |-> None, delegate_record |-> None,
     token |-> None, mint |-> None, metadata |-> None, edition |-> None,
     payer |-> None, system_program |-> None, sysvar_instructions |-> None,
     authorization_rules_program |-> None, authorization_rules |-> None,
     new_update_authority |-> None, data |-> None, primary_sale_happened |-> None,
     is_mutable |-> None, collection |-> None, collection_details |-> None,
     uses |-> None, rule_set |-> None, authorization_data |-> None,
     remaining_accounts |-> <<>>]

\* the argument record instruction() hands to UpdateV1: an unset toggle
\* becomes the toggle's None variant
UpdateV1Builder_args(self) ==
    [new_update_authority |-> self.new_update_authority,
     data |-> self.data,
     primary_sale_happened |-> self.primary_sale_happened,
     is_mutable |-> self.is_mutable,
     collection |-> unwrap_or(self.collection, Toggle_None),
     collection_details |-> unwrap_or(self.collection_details, Toggle_None),
     uses |-> unwrap_or(self.uses, Toggle_None),
     rule_set |-> unwrap_or(self.rule_set, Toggle_None),
     authorization_data |-> self.authorization_data]

UpdateV1Builder_instruction(self) ==
    IF \/ ~self.authority.some \/ ~self.mint.some
       \/ ~self.metadata.some \/ ~self.payer.some
    THEN Panicked
    ELSE Returned(<<UpdateV1_instruction_with_remaining_accounts(
                       [authority |-> self.authority.val,
                        delegate_record |-> self.delegate_record,
                        token |-> self.token,
                        mint |-> self.mint.val,
                        metadata |-> self.metadata.val,
                        edition |-> self.edition,
                        payer |-> self.payer.val,
                        system_program |-> unwrap_or(self.system_program, system_program_id),
                        sysvar_instructions |->
                            unwrap_or(self.sysvar_instructions, sysvar_program_id),
                        authorization_rules_program |-> self.authorization_rules_program,
                        authorization_rules |-> self.authorization_rules],
                       UpdateV1Builder_args(self),
                       self.remaining_accounts)>>)

(***************************************************************************)
(* metaplex/mod.rs, types.rs, update_metadata_ix.rs, create_metadata_ix.rs *)
(***************************************************************************)
\* "metadata".as_bytes()
METADATA_PREFIX == <<109, 101, 116, 97, 100, 97, 116, 97>>

derive_metadata_pda(pubkey) ==
    find_program_address(<<METADATA_PREFIX, metadata_program_id, pubkey>>,
                         metadata_program_id)

Asset_new(mint) ==
    [mint |-> mint, metadata |-> derive_metadata_pda(mint), edition |-> None]

\* faulty variant: the default clears the collection
V1UpdateArgs_default_clearing ==
    [new_update_authority |-> None, data |-> None, primary_sale_happened |-> None,
     is_mutable |-> None, collection |-> Toggle_Clear,
     collection_details |-> Toggle_None, uses |-> Toggle_None,
     rule_set |-> Toggle_None, authorization_data |-> None]

V1UpdateArgs_default ==
    [new_update_authority |-> None, data |-> None, primary_sale_happened |-> None,
     is_mutable |-> None, collection |-> Toggle_None,
     collection_details |-> Toggle_None, uses |-> Toggle_None,
     rule_set |-> Toggle_None, authorization_data |-> None]

update_asset_v1_ix(args) ==
    LET data == [name |-> args.name, symbol |-> args.symbol, uri |-> args.uri,
                 seller_fee_basis_points |-> args.seller_fee_basis_points,
                 creators |-> args.creators]
        update_args == [V1UpdateArgs_default EXCEPT !.data = Some(data)]
        asset == Asset_new(args.mint_account)
    IN  UpdateV1_instruction(
            [payer |-> args.payer, authority |-> args.payer, mint |-> asset.mint,
             metadata |-> asset.metadata, delegate_record |-> None, token |-> None,
             edition |-> asset.edition, system_program |-> system_program_id,
             sysvar_instructions |-> sysvar_program_id,
             authorization_rules |-> None, authorization_rules_program |-> None],
            update_args)

\* faulty variant: the immutable flag is passed on without the negation
create_metadata_ix_flag_as_given(args) ==
    LET parsed == Pubkey_from_str(args.mint) IN
    IF ~parsed.ok THEN Panicked
    ELSE LET mint_pubkey == parsed.key
             create_args ==
                 [name |-> args.metadata.name, symbol |-> args.metadata.symbol,
                  uri |-> args.metadata.uri, seller_fee_basis_points |-> 0,
                  creators |-> None, primary_sale_happened |-> FALSE,
                  is_mutable |-> args.immutable, token_standard |-> "Fungible",
                  collection |-> None, uses |-> None, collection_details |-> None,
                  decimals |-> None, rule_set |-> None, print_supply |-> None]
         IN  CreateBuilder_instruction(
                 [CreateBuilder_new EXCEPT
                     !.metadata = Some(derive_metadata_pda(mint_pubkey)),
                     !.mint = Some(<<mint_pubkey, FALSE>>),
                     !.authority = Some(args.payer),
                     !.payer = Some(args.payer),
                     !.update_authority = Some(<<args.payer, TRUE>>),
                     !.create_args = Some(create_args)])

\* Result<Instruction, ProgramError>: the function only ever returns Ok, or
\* panics in Pubkey::from_str(&args.mint).unwrap()
create_metadata_ix(args) ==
    LET parsed == Pubkey_from_str(args.mint) IN
    IF ~parsed.ok THEN Panicked
    ELSE LET mint_pubkey == parsed.key
             create_args ==
                 [name |-> args.metadata.name, symbol |-> args.metadata.symbol,
                  uri |-> args.metadata.uri, seller_fee_basis_points |-> 0,
                  creators |-> None, primary_sale_happened |-> FALSE,
                  is_mutable |-> ~args.immutable, token_standard |-> "Fungible",
                  collection |-> None, uses |-> None, collection_details |-> None,
                  decimals |-> None, rule_set |-> None, print_supply |-> None]
         IN  CreateBuilder_instruction(
                 [CreateBuilder_new EXCEPT
                     !.metadata = Some(derive_metadata_pda(mint_pubkey)),
                     !.mint = Some(<<mint_pubkey, FALSE>>),
                     !.authority = Some(args.payer),
                     !.payer = Some(args.payer),
                     !.update_authority = Some(<<args.payer, TRUE>>),
                     !.create_args = Some(create_args)])

(***************************************************************************)
(* metaplex/create_fungible_ix.rs                                          *)
(***************************************************************************)
\* faulty variant: the mint is passed as a non-signer
create_fungible_ix_mint_unsigned(args) ==
    CreateBuilder_instruction(
        [CreateBuilder_new EXCEPT
            !.metadata = Some(derive_metadata_pda(args.mint)),
            !.mint = Some(<<args.mint, FALSE>>),
            !.authority = Some(args.payer),
            !.payer = Some(args.payer),
            !.update_authority = Some(<<args.payer, TRUE>>),
            !.create_args =
                Some([name |-> args.metadata.name, symbol |-> args.metadata.symbol,
                      uri |-> args.metadata.uri, seller_fee_basis_points |-> 0,
                      creators |-> None, primary_sale_happened |-> FALSE,
                      is_mutable |-> ~args.immutable, token_standard |-> "Fungible",
                      collection |-> None, uses |-> None, collection_details |-> None,
                      decimals |-> Some(args.decimals), rule_set |-> None,
                      print_supply |-> None]),
            !.spl_token_program = Some(token_program_id)])

create_fungible_ix(args) ==
    LET metadata_pubkey == derive_metadata_pda(args.mint)
        create_args ==
            [name |-> args.metadata.name, symbol |-> args.metadata.symbol,
             uri |-> args.metadata.uri, seller_fee_basis_points |-> 0,
             creators |-> None, primary_sale_happened |-> FALSE,
             is_mutable |-> ~args.immutable, token_standard |-> "Fungible",
             collection |-> None, uses |-> None, collection_details |-> None,
             decimals |-> Some(args.decimals), rule_set |-> None,
             print_supply |-> None]
    IN  CreateBuilder_instruction(
            [CreateBuilder_new EXCEPT
                !.metadata = Some(metadata_pubkey),
                !.mint = Some(<<args.mint, TRUE>>),
                !.authority = Some(args.payer),
                !.payer = Some(args.payer),
                !.update_authority = Some(<<args.payer, TRUE>>),
                !.create_args = Some(create_args),
                !.spl_token_program = Some(token_program_id)])

(***************************************************************************)
(* metaplex/create_fungible22_ix.rs                                        *)
(***************************************************************************)
\* the fields of Fungible22Fields, in declaration order
ExtensionFields ==
    <<"metadata", "close_authority", "permanent_delegate", "non_transferrable",
      "transfer_fee", "interest_bearing", "transfer_hook">>

Range(seq) == {seq[i] : i \in 1..Len(seq)}

\* A caller's request is an ordered list of extension descriptors
\* [kind, value], one per kind at most; Fungible22Fields is what is left of
\* it once it is held (or deserialized) as a struct of optional fields.
Fungible22Fields(request) ==
    [f \in Range(ExtensionFields) |->
        IF \E i \in 1..Len(request) : request[i].kind = f
        THEN Some(request[CHOOSE i \in 1..Len(request) : request[i].kind = f].value)
        ELSE None]

\* the loop over additional_metadata: one update_field per pair, in order
additional_metadata_ixs(args, additional_metadata) ==
    [i \in 1..Len(additional_metadata) |->
        update_field(token22_program_id, args.mint, args.payer,
                     Field_Key(additional_metadata[i][1]), additional_metadata[i][2])]

\* faulty variant: the mint account is sized for a plain mint whatever the caller gave
create_mint_account_ix_fixed_size(args) ==
    create_account(args.payer, args.mint, args.mint_rent, 82, token22_program_id)

create_mint_account_ix(args) ==
    create_account(args.payer, args.mint, args.mint_rent, args.mint_size,
                   token22_program_id)

\* faulty variant: the close authority is declared before the metadata pointer
pre_init_ixs_close_first(args, close_authority_key) ==
    (IF args.extensions.close_authority.some
     THEN <<initialize_mint_close_authority(args.mint, Some(close_authority_key))>>
     ELSE <<>>)
    \o (IF args.extensions.metadata.some
        THEN <<initialize_metadata_pointer(args.mint, args.mint, args.payer)>>
        ELSE <<>>)

\* "Initialize extensions": the metadata pointer, then the close authority
pre_init_ixs(args, close_authority_key) ==
    (IF args.extensions.metadata.some
     THEN <<initialize_metadata_pointer(args.mint, args.mint, args.payer)>>
     ELSE <<>>)
    \o (IF args.extensions.close_authority.some
        THEN <<initialize_mint_close_authority(args.mint, Some(close_authority_key))>>
        ELSE <<>>)

\* faulty variant: the mint is made the update authority of its own metadata
post_init_ixs_mint_updates(args) ==
    LET metadata == args.extensions.metadata IN
    IF metadata.some
    THEN <<initialize(token22_program_id, args.mint, args.mint, args.mint, args.payer,
                      metadata.val.name, metadata.val.symbol, metadata.val.uri)>>
         \o (IF metadata.val.additional_metadata.some
             THEN additional_metadata_ixs(args, metadata.val.additional_metadata.val)
             ELSE <<>>)
    ELSE <<>>

\* "Initialize metadata": initialize, then the additional key/value pairs
post_init_ixs(args) ==
    LET metadata == args.extensions.metadata IN
    IF metadata.some
    THEN <<initialize(token22_program_id, args.mint, args.payer, args.mint, args.payer,
                      metadata.val.name, metadata.val.symbol, metadata.val.uri)>>
         \o (IF metadata.val.additional_metadata.some
             THEN additional_metadata_ixs(args, metadata.val.additional_metadata.val)
             ELSE <<>>)
    ELSE <<>>

\* faulty variant: the mint is initialized before its extensions are declared
create_fungible_22_ix_mint_first(args) ==
    LET close_authority == args.extensions.close_authority
        parsed == Pubkey_from_str(close_authority.val)
    IN  IF close_authority.some /\ ~parsed.ok
        THEN Panicked
        ELSE Returned(
                <<create_mint_account_ix(args)>>
                \o <<initialize_mint2(token22_program_id, args.mint, args.payer,
                                      Some(args.payer), args.decimals)>>
                \o pre_init_ixs(args, IF close_authority.some THEN parsed.key ELSE <<>>)
                \o post_init_ixs(args))

\* (the extension_types vector the function fills is never read)
create_fungible_22_ix(args) ==
    LET close_authority == args.extensions.close_authority
        \* Pubkey::from_str(&close_authority).unwrap()
        parsed == Pubkey_from_str(close_authority.val)
    IN  IF close_authority.some /\ ~parsed.ok
        THEN Panicked
        ELSE Returned(
                <<create_mint_account_ix(args)>>
                \o pre_init_ixs(args, IF close_authority.some THEN parsed.key ELSE <<>>)
                \o <<initialize_mint2(token22_program_id, args.mint, args.payer,
                                      Some(args.payer), args.decimals)>>
                \o post_init_ixs(args))

(***************************************************************************)
(* Argument values the calls are drawn from                                *)
(***************************************************************************)
\* sequences over S of length at most n
SeqsUpTo(S, n) == UNION {[1..k -> S] : k \in 0..n}

\* sequences of distinct elements
Distinct(seq) == \A i, j \in 1..Len(seq) : i # j => seq[i] # seq[j]

TokenPrograms == {token_program_id, token22_program_id}
Decimals == {0, 6}
MintSizes == {82, 202, 270}
MintRents == {1461600, 2074080}

AdditionalPairs == {<<StrKey, StrVal>>, <<StrX, StrU>>}

MetadataConfigs ==
    {[name |-> n[1], symbol |-> n[2], uri |-> n[3], additional_metadata |-> am] :
        n \in {<<StrX, StrX, StrU>>, <<StrKey, <<>>, StrX>>},
        am \in OptionOf(SeqsUpTo(AdditionalPairs, MaxPairs))}

CloseAuthorityTexts ==
    {"4vJ9JU1bJJE96FWSJKvHsmmFADCg4gpZQff4P3bkLKi",
     "8qbHbw2BbbTHBW1sbeqakYXVKRQM8Ne7pLK7m6CVfeR",
     "not-base58!"}

TransferFeeConfigs ==
    {[transfer_fee_config_authority |-> None, withdraw_withheld_authority |-> None,
      fee_basis_points |-> 100, max_fee |-> 1000]}
InterestBearingConfigs == {[rate_authority |-> None, rate |-> 5]}
TransferHookConfigs == {[program_id |-> None, authority |-> None]}

\* the values a descriptor of each kind may carry
DescriptorValues(kind) ==
    CASE kind = "metadata" -> MetadataConfigs
      [] kind = "close_authority" -> CloseAuthorityTexts
      [] kind = "permanent_delegate" -> {"8qbHbw2BbbTHBW1sbeqakYXVKRQM8Ne7pLK7m6CVfeR"}
      [] kind = "non_transferrable" -> {TRUE}
      [] kind = "transfer_fee" -> TransferFeeConfigs
      [] kind = "interest_bearing" -> InterestBearingConfigs
      [] kind = "transfer_hook" -> TransferHookConfigs

KindSeqs == {ks \in SeqsUpTo(Range(ExtensionFields), MaxRequest) : Distinct(ks)}

\* requests whose kinds are ks, in that order
RECURSIVE RequestsOf(_)
RequestsOf(ks) ==
    IF ks = <<>> THEN {<<>>}
    ELSE {<<[kind |-> Head(ks), value |-> v]>> \o rest :
             v \in DescriptorValues(Head(ks)), rest \in RequestsOf(Tail(ks))}

RemainingMetas ==
    {AccountMeta_new(Key(7), FALSE), AccountMeta_new_readonly(Key(8), TRUE)}

\* a two-entry map whose iterator yields the larger key first
PayloadEntries ==
    <<[key |-> StrKey, value |-> [variant |-> "Number", number |-> 9]],
      [key |-> StrX, value |-> [variant |-> "Pubkey", key |-> Key(3)]]>>

CreateArgsSamples ==
    {[name |-> StrX, symbol |-> StrX, uri |-> StrU, seller_fee_basis_points |-> 0,
      creators |-> None, primary_sale_happened |-> FALSE, is_mutable |-> m,
      token_standard |-> "Fungible", collection |-> None, uses |-> None,
      collection_details |-> None, rule_set |-> None, decimals |-> d,
      print_supply |-> None] : m \in BOOLEAN, d \in {None, Some(6)}}
    \cup
    {[name |-> StrKey, symbol |-> <<>>, uri |-> StrU, seller_fee_basis_points |-> 500,
      creators |-> Some(<<[address |-> Key(3), verified |-> TRUE, share |-> 100]>>),
      primary_sale_happened |-> TRUE, is_mutable |-> TRUE,
      token_standard |-> "ProgrammableNonFungible",
      collection |-> Some([verified |-> FALSE, key |-> Key(2)]),
      uses |-> Some([use_method |-> "Single", remaining |-> 1, total |-> 1]),
      collection_details |-> Some([variant |-> "V1", size |-> 3]),
      rule_set |-> Some(Key(1)), decimals |-> None,
      print_supply |-> Some([variant |-> "Limited", limit |-> 10])]}

UpdateV1ArgsSamples ==
    {[new_update_authority |-> None, data |-> None, primary_sale_happened |-> None,
      is_mutable |-> None, collection |-> Toggle_None,
      collection_details |-> Toggle_None, uses |-> Toggle_None,
      rule_set |-> Toggle_None, authorization_data |-> None],
     [new_update_authority |-> Some(Key(2)),
      data |-> Some([name |-> StrX, symbol |-> StrX, uri |-> StrU,
                     seller_fee_basis_points |-> 0, creators |-> None]),
      primary_sale_happened |-> Some(TRUE), is_mutable |-> Some(FALSE),
      collection |-> Toggle_Set([verified |-> FALSE, key |-> Key(3)]),
      collection_details |-> Toggle_Clear,
      uses |-> Toggle_Set([use_method |-> "Burn", remaining |-> 2, total |-> 5]),
      rule_set |-> Toggle_Set(Key(1)),
      authorization_data |->
          Some([payload |-> [map |-> PayloadEntries]])]}

(***************************************************************************)
(* The state machine: a call is made from the idle state, its outcome is   *)
(* held until the caller drops it.                                         *)
(***************************************************************************)
Idle == [fn |-> "idle", args |-> <<>>]

Init ==
    /\ call = Idle
    /\ ret = Returned(<<>>)
    /\ builder = NoBuilder

\* the instructions are stack values: the caller consumes them and they are
\* gone; a panic unwinds the caller, and the builder it held with it
Discard ==
    /\ call.fn # "idle"
    /\ call' = Idle
    /\ ret' = Returned(<<>>)
    /\ builder' = IF ret.panicked THEN NoBuilder ELSE builder

CallRequestHeapFrame ==
    /\ call.fn = "idle" /\ builder = NoBuilder /\ UNCHANGED builder
    /\ \E bytes \in U32Values :
        /\ call' = [fn |-> "request_heap_frame", args |-> [bytes |-> bytes]]
        /\ ret' = Returned(<<request_heap_frame(bytes)>>)

CallSetComputeUnitLimit ==
    /\ call.fn = "idle" /\ builder = NoBuilder /\ UNCHANGED builder
    /\ \E units \in U32Values :
        /\ call' = [fn |-> "set_compute_unit_limit", args |-> [units |-> units]]
        /\ ret' = Returned(<<set_compute_unit_limit(units)>>)

CallSetComputeUnitPrice ==
    /\ call.fn = "idle" /\ builder = NoBuilder /\ UNCHANGED builder
    /\ \E micro_lamports \in U64Values :
        /\ call' = [fn |-> "set_compute_unit_price",
                    args |-> [micro_lamports |-> micro_lamports]]
        /\ ret' = Returned(<<set_compute_unit_price(micro_lamports)>>)

CallSetLoadedAccountsDataSizeLimit ==
    /\ call.fn = "idle" /\ builder = NoBuilder /\ UNCHANGED builder
    /\ \E bytes \in U32Values :
        /\ call' = [fn |-> "set_loaded_accounts_data_size_limit",
                    args |-> [bytes |-> bytes]]
        /\ ret' = Returned(<<set_loaded_accounts_data_size_limit(bytes)>>)

CallInitializeMint ==
    /\ call.fn = "idle" /\ builder = NoBuilder /\ UNCHANGED builder
    /\ \E tp \in TokenPrograms, d \in Decimals, fa \in OptionOf({Key(3)}) :
        /\ call' = [fn |-> "initialize_mint",
                    args |-> [token_program_id |-> tp, mint_pubkey |-> Key(1),
                              mint_authority_pubkey |-> Key(2),
                              freeze_authority_pubkey |-> fa, decimals |-> d]]
        /\ ret' = Returned(<<initialize_mint(tp, Key(1), Key(2), fa, d)>>)

CallInitializeMint2 ==
    /\ call.fn = "idle" /\ builder = NoBuilder /\ UNCHANGED builder
    /\ \E tp \in TokenPrograms, d \in Decimals, fa \in OptionOf({Key(3)}) :
        /\ call' = [fn |-> "initialize_mint2",
                    args |-> [token_program_id |-> tp, mint_pubkey |-> Key(1),
                              mint_authority_pubkey |-> Key(2),
                              freeze_authority_pubkey |-> fa, decimals |-> d]]
        /\ ret' = Returned(<<initialize_mint2(tp, Key(1), Key(2), fa, d)>>)

CallMintTo ==
    /\ call.fn = "idle" /\ builder = NoBuilder /\ UNCHANGED builder
    /\ \E tp \in TokenPrograms, owner \in UserKeys,
          signers \in SeqsUpTo(UserKeys, MaxSigners), amount \in U64Values :
        /\ call' = [fn |-> "mint_to",
                    args |-> [token_program_id |-> tp, mint_pubkey |-> Key(1),
                              account_pubkey |-> Key(2), owner_pubkey |-> owner,
                              signer_pubkeys |-> signers, amount |-> amount]]
        /\ ret' = Returned(<<mint_to(tp, Key(1), Key(2), owner, signers, amount)>>)

CallCloseAccount ==
    /\ call.fn = "idle" /\ builder = NoBuilder /\ UNCHANGED builder
    /\ \E tp \in TokenPrograms, owner \in UserKeys,
          signers \in SeqsUpTo(UserKeys, MaxSigners) :
        /\ call' = [fn |-> "close_account",
                    args |-> [token_program_id |-> tp, account_pubkey |-> Key(1),
                              destination_pubkey |-> Key(2), owner_pubkey |-> owner,
                              signer_pubkeys |-> signers]]
        /\ ret' = Returned(<<close_account(tp, Key(1), Key(2), owner, signers)>>)

CallFreezeAccount ==
    /\ call.fn = "idle" /\ builder = NoBuilder /\ UNCHANGED builder
    /\ \E tp \in TokenPrograms, owner \in UserKeys,
          signers \in SeqsUpTo(UserKeys, MaxSigners) :
        /\ call' = [fn |-> "freeze_account",
                    args |-> [token_program_id |-> tp, account_pubkey |-> Key(1),
                              mint_pubkey |-> Key(2), owner_pubkey |-> owner,
                              signer_pubkeys |-> signers]]
        /\ ret' = Returned(<<freeze_account(tp, Key(1), Key(2), owner, signers)>>)

CallCreateAssociatedTokenAccount ==
    /\ call.fn = "idle" /\ builder = NoBuilder /\ UNCHANGED builder
    /\ \E funding \in UserKeys, wallet \in UserKeys, mint \in UserKeys,
          tp \in TokenPrograms :
        /\ call' = [fn |-> "create_associated_token_account",
                    args |-> [funding_address |-> funding, wallet_address |-> wallet,
                              token_mint_address |-> mint, token_program_id |-> tp]]
        /\ ret' = Returned(<<create_associated_token_account(funding, wallet, mint, tp)>>)

CallCreateAssociatedTokenAccountIdempotent ==
    /\ call.fn = "idle" /\ builder = NoBuilder /\ UNCHANGED builder
    /\ \E funding \in UserKeys, wallet \in UserKeys, mint \in UserKeys,
          tp \in TokenPrograms :
        /\ call' = [fn |-> "create_associated_token_account_idempotent",
                    args |-> [funding_address |-> funding, wallet_address |-> wallet,
                              token_mint_address |-> mint, token_program_id |-> tp]]
        /\ ret' = Returned(<<create_associated_token_account_idempotent(
                                 funding, wallet, mint, tp)>>)

\* args.request is the order in which the caller declared the extensions;
\* the function itself receives args.extensions only
CallCreateFungible22 ==
    /\ call.fn = "idle" /\ builder = NoBuilder /\ UNCHANGED builder
    /\ \E ks \in KindSeqs :
         \E request \in RequestsOf(ks), decimals \in Decimals,
            mint_size \in MintSizes, mint_rent \in MintRents :
            LET args == [mint |-> Key(1), extensions |-> Fungible22Fields(request),
                         mint_size |-> mint_size, mint_rent |-> mint_rent,
                         decimals |-> decimals, payer |-> Key(2)]
            IN  /\ call' = [fn |-> "create_fungible_22_ix",
                            args |-> [request |-> request] @@ args]
                /\ ret' = create_fungible_22_ix(args)

CallCreateInstruction ==
    /\ call.fn = "idle" /\ builder = NoBuilder /\ UNCHANGED builder
    /\ \E master_edition \in OptionOf({Key(5), metadata_program_id}),
          mint_signer \in BOOLEAN, update_authority_signer \in BOOLEAN,
          system_program \in {system_program_id, Key(6)},
          spl_token_program \in OptionOf({token_program_id}),
          create_args \in CreateArgsSamples,
          remaining_accounts \in SeqsUpTo(RemainingMetas, MaxSigners) :
        LET self == [metadata |-> Key(1), master_edition |-> master_edition,
                     mint |-> <<Key(2), mint_signer>>, authority |-> Key(3),
                     payer |-> Key(4),
                     update_authority |-> <<Key(3), update_authority_signer>>,
                     system_program |-> system_program,
                     sysvar_instructions |-> sysvar_program_id,
                     spl_token_program |-> spl_token_program]
            args == [create_args |-> create_args]
        IN  /\ call' = [fn |-> "Create::instruction_with_remaining_accounts",
                        args |-> [self |-> self, args |-> args,
                                  remaining_accounts |-> remaining_accounts]]
            /\ ret' = Returned(<<Create_instruction_with_remaining_accounts(
                                     self, args, remaining_accounts)>>)

CallUpdateV1Instruction ==
    /\ call.fn = "idle" /\ builder = NoBuilder /\ UNCHANGED builder
    /\ \E delegate_record \in OptionOf({Key(5)}), token \in OptionOf({Key(6)}),
          edition \in OptionOf({Key(7)}),
          authorization_rules_program \in OptionOf({Key(8)}),
          authorization_rules \in OptionOf({Key(9)}),
          args \in UpdateV1ArgsSamples,
          remaining_accounts \in SeqsUpTo(RemainingMetas, MaxSigners) :
        LET self == [authority |-> Key(1), delegate_record |-> delegate_record,
                     token |-> token, mint |-> Key(2), metadata |-> Key(3),
                     edition |-> edition, payer |-> Key(4),
                     system_program |-> system_program_id,
                     sysvar_instructions |-> sysvar_program_id,
                     authorization_rules_program |-> authorization_rules_program,
                     authorization_rules |-> authorization_rules]
        IN  /\ call' = [fn |-> "UpdateV1::instruction_with_remaining_accounts",
                        args |-> [self |-> self, args |-> args,
                                  remaining_accounts |-> remaining_accounts]]
            /\ ret' = Returned(<<UpdateV1_instruction_with_remaining_accounts(
                                     self, args, remaining_accounts)>>)

(***************************************************************************)
(* The staged builders: new(), then setters in any order, instruction()    *)
(* at any point.  MaxOptional caps how many optional fields and remaining  *)
(* accounts a builder holds at once.                                       *)
(***************************************************************************)
CreateBuilderOptional ==
    {"master_edition", "system_program", "sysvar_instructions", "spl_token_program"}

UpdateV1BuilderOptional ==
    {"delegate_record", "token", "edition", "system_program", "sysvar_instructions",
     "authorization_rules_program", "authorization_rules", "new_update_authority",
     "data", "primary_sale_happened", "is_mutable", "collection",
     "collection_details", "uses", "rule_set", "authorization_data"}

OptionalStaged(b) ==
    LET fields == IF b.kind = "CreateBuilder" THEN CreateBuilderOptional
                  ELSE UpdateV1BuilderOptional
    IN  Cardinality({f \in fields : b[f].some}) + Len(b.remaining_accounts)

DataSamples ==
    {[name |-> StrX, symbol |-> StrX, uri |-> StrU, seller_fee_basis_points |-> 0,
      creators |-> None]}

AuthorizationDataSamples ==
    {[payload |-> [map |-> PayloadEntries]]}

CallCreateBuilderNew ==
    /\ call.fn = "idle" /\ builder = NoBuilder
    /\ builder' = CreateBuilder_new
    /\ UNCHANGED <<call, ret>>

CallCreateBuilderMetadata ==
    /\ call.fn = "idle" /\ builder.kind = "CreateBuilder"
    /\ \E metadata \in {Key(1)} :
           /\ builder' = [builder EXCEPT !.metadata = Some(metadata)]
    /\ UNCHANGED <<call, ret>>

CallCreateBuilderMasterEdition ==
    /\ call.fn = "idle" /\ builder.kind = "CreateBuilder"
    /\ \E master_edition \in OptionOf({Key(5)}) :
           /\ builder' = [builder EXCEPT !.master_edition = master_edition]
           /\ OptionalStaged(builder') <= MaxOptional
    /\ UNCHANGED <<call, ret>>

CallCreateBuilderMint ==
    /\ call.fn = "idle" /\ builder.kind = "CreateBuilder"
    /\ \E mint \in {Key(2)}, as_signer \in BOOLEAN :
           /\ builder' = [builder EXCEPT !.mint = Some(<<mint, as_signer>>)]
    /\ UNCHANGED <<call, ret>>

CallCreateBuilderAuthority ==
    /\ call.fn = "idle" /\ builder.kind = "CreateBuilder"
    /\ \E authority \in {Key(3), Key(9)} :
           /\ builder' = [builder EXCEPT !.authority = Some(authority)]
    /\ UNCHANGED <<call, ret>>

CallCreateBuilderPayer ==
    /\ call.fn = "idle" /\ builder.kind = "CreateBuilder"
    /\ \E payer \in {Key(4)} :
           /\ builder' = [builder EXCEPT !.payer = Some(payer)]
    /\ UNCHANGED <<call, ret>>

CallCreateBuilderUpdateAuthority ==
    /\ call.fn = "idle" /\ builder.kind = "CreateBuilder"
    /\ \E update_authority \in {Key(3)}, as_signer \in BOOLEAN :
           /\ builder' = [builder EXCEPT !.update_authority = Some(<<update_authority, as_signer>>)]
    /\ UNCHANGED <<call, ret>>

CallCreateBuilderSystemProgram ==
    /\ call.fn = "idle" /\ builder.kind = "CreateBuilder"
    /\ \E system_program \in {Key(6)} :
           /\ builder' = [builder EXCEPT !.system_program = Some(system_program)]
           /\ OptionalStaged(builder') <= MaxOptional
    /\ UNCHANGED <<call, ret>>

CallCreateBuilderSysvarInstructions ==
    /\ call.fn = "idle" /\ builder.kind = "CreateBuilder"
    /\ \E sysvar_instructions \in {Key(8)} :
           /\ builder' = [builder EXCEPT !.sysvar_instructions = Some(sysvar_instructions)]
           /\ OptionalStaged(builder') <= MaxOptional
    /\ UNCHANGED <<call, ret>>

CallCreateBuilderSplTokenProgram ==
    /\ call.fn = "idle" /\ builder.kind = "CreateBuilder"
    /\ \E spl_token_program \in OptionOf({token_program_id}) :
           /\ builder' = [builder EXCEPT !.spl_token_program = spl_token_program]
           /\ OptionalStaged(builder') <= MaxOptional
    /\ UNCHANGED <<call, ret>>

CallCreateBuilderCreateArgs ==
    /\ call.fn = "idle" /\ builder.kind = "CreateBuilder"
    /\ \E create_args \in CreateArgsSamples :
           /\ builder' = [builder EXCEPT !.create_args = Some(create_args)]
    /\ UNCHANGED <<call, ret>>

CallCreateBuilderAddRemainingAccount ==
    /\ call.fn = "idle" /\ builder.kind = "CreateBuilder"
    /\ \E account \in RemainingMetas :
           /\ builder' = [builder EXCEPT
                              !.remaining_accounts = Append(@, account)]
           /\ OptionalStaged(builder') <= MaxOptional
    /\ UNCHANGED <<call, ret>>

CallCreateBuilderAddRemainingAccounts ==
    /\ call.fn = "idle" /\ builder.kind = "CreateBuilder"
    /\ \E accounts \in SeqsUpTo(RemainingMetas, MaxOptional) :
           /\ builder' = [builder EXCEPT !.remaining_accounts = @ \o accounts]
           /\ OptionalStaged(builder') <= MaxOptional
    /\ UNCHANGED <<call, ret>>

\* faulty variant: instruction() takes the remaining accounts out of the builder
CallCreateBuilderInstruction_draining ==
    /\ call.fn = "idle" /\ builder.kind = "CreateBuilder"
    /\ call' = [fn |-> "CreateBuilder::instruction", args |-> [self |-> builder]]
    /\ ret' = CreateBuilder_instruction(builder)
    /\ builder' = [builder EXCEPT !.remaining_accounts = <<>>]

\* instruction(&self): the builder is read, not consumed
CallCreateBuilderInstruction ==
    /\ call.fn = "idle" /\ builder.kind = "CreateBuilder"
    /\ call' = [fn |-> "CreateBuilder::instruction", args |-> [self |-> builder]]
    /\ ret' = CreateBuilder_instruction(builder)
    /\ UNCHANGED builder

CallUpdateV1BuilderNew ==
    /\ call.fn = "idle" /\ builder = NoBuilder
    /\ builder' = UpdateV1Builder_new
    /\ UNCHANGED <<call, ret>>

CallUpdateV1BuilderAuthority ==
    /\ call.fn = "idle" /\ builder.kind = "UpdateV1Builder"
    /\ \E authority \in {Key(1), Key(9)} :
           /\ builder' = [builder EXCEPT !.authority = Some(authority)]
    /\ UNCHANGED <<call, ret>>

CallUpdateV1BuilderDelegateRecord ==
    /\ call.fn = "idle" /\ builder.kind = "UpdateV1Builder"
    /\ \E delegate_record \in OptionOf({Key(5)}) :
           /\ builder' = [builder EXCEPT !.delegate_record = delegate_record]
           /\ OptionalStaged(builder') <= MaxOptional
    /\ UNCHANGED <<call, ret>>

CallUpdateV1BuilderToken ==
    /\ call.fn = "idle" /\ builder.kind = "UpdateV1Builder"
    /\ \E token \in OptionOf({Key(6)}) :
           /\ builder' = [builder EXCEPT !.token = token]
           /\ OptionalStaged(builder') <= MaxOptional
    /\ UNCHANGED <<call, ret>>

CallUpdateV1BuilderMint ==
    /\ call.fn = "idle" /\ builder.kind = "UpdateV1Builder"
    /\ \E mint \in {Key(2)} :
           /\ builder' = [builder EXCEPT !.mint = Some(mint)]
    /\ UNCHANGED <<call, ret>>

CallUpdateV1BuilderMetadata ==
    /\ call.fn = "idle" /\ builder.kind = "UpdateV1Builder"
    /\ \E metadata \in {Key(3)} :
           /\ builder' = [builder EXCEPT !.metadata = Some(metadata)]
    /\ UNCHANGED <<call, ret>>

CallUpdateV1BuilderEdition ==
    /\ call.fn = "idle" /\ builder.kind = "UpdateV1Builder"
    /\ \E edition \in OptionOf({Key(7)}) :
           /\ builder' = [builder EXCEPT !.edition = edition]
           /\ OptionalStaged(builder') <= MaxOptional
    /\ UNCHANGED <<call, ret>>

CallUpdateV1BuilderPayer ==
    /\ call.fn = "idle" /\ builder.kind = "UpdateV1Builder"
    /\ \E payer \in {Key(4)} :
           /\ builder' = [builder EXCEPT !.payer = Some(payer)]
    /\ UNCHANGED <<call, ret>>

CallUpdateV1BuilderSystemProgram ==
    /\ call.fn = "idle" /\ builder.kind = "UpdateV1Builder"
    /\ \E system_program \in {Key(6)} :
           /\ builder' = [builder EXCEPT !.system_program = Some(system_program)]
           /\ OptionalStaged(builder') <= MaxOptional
    /\ UNCHANGED <<call, ret>>

CallUpdateV1BuilderSysvarInstructions ==
    /\ call.fn = "idle" /\ builder.kind = "UpdateV1Builder"
    /\ \E sysvar_instructions \in {Key(8)} :
           /\ builder' = [builder EXCEPT !.sysvar_instructions = Some(sysvar_instructions)]
           /\ OptionalStaged(builder') <= MaxOptional
    /\ UNCHANGED <<call, ret>>

CallUpdateV1BuilderAuthorizationRulesProgram ==
    /\ call.fn = "idle" /\ builder.kind = "UpdateV1Builder"
    /\ \E authorization_rules_program \in OptionOf({Key(8)}) :
           /\ builder' = [builder EXCEPT !.authorization_rules_program = authorization_rules_program]
           /\ OptionalStaged(builder') <= MaxOptional
    /\ UNCHANGED <<call, ret>>

CallUpdateV1BuilderAuthorizationRules ==
    /\ call.fn = "idle" /\ builder.kind = "UpdateV1Builder"
    /\ \E authorization_rules \in OptionOf({Key(9)}) :
           /\ builder' = [builder EXCEPT !.authorization_rules = authorization_rules]
           /\ OptionalStaged(builder') <= MaxOptional
    /\ UNCHANGED <<call, ret>>

CallUpdateV1BuilderNewUpdateAuthority ==
    /\ call.fn = "idle" /\ builder.kind = "UpdateV1Builder"
    /\ \E new_update_authority \in {Key(5)} :
           /\ builder' = [builder EXCEPT !.new_update_authority = Some(new_update_authority)]
           /\ OptionalStaged(builder') <= MaxOptional
    /\ UNCHANGED <<call, ret>>

CallUpdateV1BuilderData ==
    /\ call.fn = "idle" /\ builder.kind = "UpdateV1Builder"
    /\ \E data \in DataSamples :
           /\ builder' = [builder EXCEPT !.data = Some(data)]
           /\ OptionalStaged(builder') <= MaxOptional
    /\ UNCHANGED <<call, ret>>

CallUpdateV1BuilderPrimarySaleHappened ==
    /\ call.fn = "idle" /\ builder.kind = "UpdateV1Builder"
    /\ \E primary_sale_happened \in {TRUE} :
           /\ builder' = [builder EXCEPT !.primary_sale_happened = Some(primary_sale_happened)]
           /\ OptionalStaged(builder') <= MaxOptional
    /\ UNCHANGED <<call, ret>>

CallUpdateV1BuilderIsMutable ==
    /\ call.fn = "idle" /\ builder.kind = "UpdateV1Builder"
    /\ \E is_mutable \in {FALSE} :
           /\ builder' = [builder EXCEPT !.is_mutable = Some(is_mutable)]
           /\ OptionalStaged(builder') <= MaxOptional
    /\ UNCHANGED <<call, ret>>

CallUpdateV1BuilderCollection ==
    /\ call.fn = "idle" /\ builder.kind = "UpdateV1Builder"
    /\ \E collection \in {Toggle_None, Toggle_Clear, Toggle_Set([verified |-> FALSE, key |-> Key(3)])} :
           /\ builder' = [builder EXCEPT !.collection = Some(collection)]
           /\ OptionalStaged(builder') <= MaxOptional
    /\ UNCHANGED <<call, ret>>

CallUpdateV1BuilderCollectionDetails ==
    /\ call.fn = "idle" /\ builder.kind = "UpdateV1Builder"
    /\ \E collection_details \in {Toggle_None, Toggle_Set([variant |-> "V1", size |-> 3])} :
           /\ builder' = [builder EXCEPT !.collection_details = Some(collection_details)]
           /\ OptionalStaged(builder') <= MaxOptional
    /\ UNCHANGED <<call, ret>>

CallUpdateV1BuilderUses ==
    /\ call.fn = "idle" /\ builder.kind = "UpdateV1Builder"
    /\ \E uses \in {Toggle_Clear, Toggle_Set([use_method |-> "Burn", remaining |-> 2, total |-> 5])} :
           /\ builder' = [builder EXCEPT !.uses = Some(uses)]
           /\ OptionalStaged(builder') <= MaxOptional
    /\ UNCHANGED <<call, ret>>

CallUpdateV1BuilderRuleSet ==
    /\ call.fn = "idle" /\ builder.kind = "UpdateV1Builder"
    /\ \E rule_set \in {Toggle_None, Toggle_Set(Key(1))} :
           /\ builder' = [builder EXCEPT !.rule_set = Some(rule_set)]
           /\ OptionalStaged(builder') <= MaxOptional
    /\ UNCHANGED <<call, ret>>

CallUpdateV1BuilderAuthorizationData ==
    /\ call.fn = "idle" /\ builder.kind = "UpdateV1Builder"
    /\ \E authorization_data \in AuthorizationDataSamples :
           /\ builder' = [builder EXCEPT !.authorization_data = Some(authorization_data)]
           /\ OptionalStaged(builder') <= MaxOptional
    /\ UNCHANGED <<call, ret>>

\* faulty variant: the added account is put in front of the ones already added
CallUpdateV1BuilderAddRemainingAccount_prepending ==
    /\ call.fn = "idle" /\ builder.kind = "UpdateV1Builder"
    /\ \E account \in RemainingMetas :
           /\ builder' = [builder EXCEPT
                              !.remaining_accounts = <<account>> \o @]
           /\ OptionalStaged(builder') <= MaxOptional
    /\ UNCHANGED <<call, ret>>

CallUpdateV1BuilderAddRemainingAccount ==
    /\ call.fn = "idle" /\ builder.kind = "UpdateV1Builder"
    /\ \E account \in RemainingMetas :
           /\ builder' = [builder EXCEPT
                              !.remaining_accounts = Append(@, account)]
           /\ OptionalStaged(builder') <= MaxOptional
    /\ UNCHANGED <<call, ret>>

CallUpdateV1BuilderAddRemainingAccounts ==
    /\ call.fn = "idle" /\ builder.kind = "UpdateV1Builder"
    /\ \E accounts \in SeqsUpTo(RemainingMetas, MaxOptional) :
           /\ builder' = [builder EXCEPT !.remaining_accounts = @ \o accounts]
           /\ OptionalStaged(builder') <= MaxOptional
    /\ UNCHANGED <<call, ret>>

\* instruction(&self): the builder is read, not consumed
CallUpdateV1BuilderInstruction ==
    /\ call.fn = "idle" /\ builder.kind = "UpdateV1Builder"
    /\ call' = [fn |-> "UpdateV1Builder::instruction", args |-> [self |-> builder]]
    /\ ret' = UpdateV1Builder_instruction(builder)
    /\ UNCHANGED builder

FungibleFieldsSamples ==
    {[name |-> StrX, symbol |-> StrX, uri |-> StrU],
     [name |-> StrKey, symbol |-> <<>>, uri |-> StrVal]}

CreatorsSamples ==
    {None, Some(<<>>), Some(<<[address |-> Key(3), verified |-> TRUE, share |-> 100]>>)}

CallUpdateAssetV1Ix ==
    /\ call.fn = "idle" /\ builder = NoBuilder /\ UNCHANGED builder
    /\ \E payer \in {Key(2), Key(4)}, mint_account \in {Key(1), Key(3)},
          fields \in FungibleFieldsSamples, seller_fee_basis_points \in {0, 500},
          creators \in CreatorsSamples :
        LET args == [payer |-> payer, mint_account |-> mint_account,
                     name |-> fields.name, symbol |-> fields.symbol, uri |-> fields.uri,
                     seller_fee_basis_points |-> seller_fee_basis_points,
                     creators |-> creators]
        IN  /\ call' = [fn |-> "update_asset_v1_ix", args |-> args]
            /\ ret' = Returned(<<update_asset_v1_ix(args)>>)

CallCreateMetadataIx ==
    /\ call.fn = "idle" /\ builder = NoBuilder /\ UNCHANGED builder
    /\ \E mint \in AddrText, metadata \in FungibleFieldsSamples,
          immutable \in BOOLEAN, payer \in {Key(2), Key(4)} :
        LET args == [mint |-> mint, metadata |-> metadata,
                     immutable |-> immutable, payer |-> payer]
        IN  /\ call' = [fn |-> "create_metadata_ix", args |-> args]
            /\ ret' = create_metadata_ix(args)

CallCreateFungibleIx ==
    /\ call.fn = "idle" /\ builder = NoBuilder /\ UNCHANGED builder
    /\ \E mint \in {Key(1), Key(2)}, metadata \in FungibleFieldsSamples,
          decimals \in Decimals, immutable \in BOOLEAN, payer \in {Key(2), Key(4)} :
        LET args == [mint |-> mint, metadata |-> metadata, decimals |-> decimals,
                     immutable |-> immutable, payer |-> payer]
        IN  /\ call' = [fn |-> "create_fungible_ix", args |-> args]
            /\ ret' = create_fungible_ix(args)

Seeds == {<<>>, StrKey}
Lamports == {0, 1000, 2147483647}
Spaces == {0, 165}

CallCreateAccount ==
    /\ call.fn = "idle" /\ builder = NoBuilder /\ UNCHANGED builder
    /\ \E from_pubkey \in {Key(1)}, to_pubkey \in {Key(2), Key(1)},
          lamports \in Lamports, space \in Spaces, owner \in TokenPrograms :
        /\ call' = [fn |-> "create_account",
                    args |-> [from_pubkey |-> from_pubkey, to_pubkey |-> to_pubkey,
                              lamports |-> lamports, space |-> space, owner |-> owner]]
        /\ ret' = Returned(<<create_account(from_pubkey, to_pubkey, lamports, space,
                                            owner)>>)

CallCreateAccountWithSeed ==
    /\ call.fn = "idle" /\ builder = NoBuilder /\ UNCHANGED builder
    /\ \E from_pubkey \in {Key(1)}, to_pubkey \in {Key(2)}, base \in {Key(1), Key(3)},
          seed \in Seeds, lamports \in Lamports, space \in Spaces,
          owner \in TokenPrograms :
        /\ call' = [fn |-> "create_account_with_seed",
                    args |-> [from_pubkey |-> from_pubkey, to_pubkey |-> to_pubkey,
                              base |-> base, seed |-> seed, lamports |-> lamports,
                              space |-> space, owner |-> owner]]
        /\ ret' = Returned(<<create_account_with_seed(from_pubkey, to_pubkey, base, seed,
                                                      lamports, space, owner)>>)

CallAssign ==
    /\ call.fn = "idle" /\ builder = NoBuilder /\ UNCHANGED builder
    /\ \E pubkey \in UserKeys, owner \in TokenPrograms :
        /\ call' = [fn |-> "assign", args |-> [pubkey |-> pubkey, owner |-> owner]]
        /\ ret' = Returned(<<assign(pubkey, owner)>>)

CallAssignWithSeed ==
    /\ call.fn = "idle" /\ builder = NoBuilder /\ UNCHANGED builder
    /\ \E address \in {Key(2)}, base \in {Key(1), Key(3)}, seed \in Seeds,
          owner \in TokenPrograms :
        /\ call' = [fn |-> "assign_with_seed",
                    args |-> [address |-> address, base |-> base, seed |-> seed,
                              owner |-> owner]]
        /\ ret' = Returned(<<assign_with_seed(address, base, seed, owner)>>)

CallTransfer ==
    /\ call.fn = "idle" /\ builder = NoBuilder /\ UNCHANGED builder
    /\ \E from_pubkey \in {Key(1)}, to_pubkey \in UserKeys, lamports \in Lamports :
        /\ call' = [fn |-> "transfer",
                    args |-> [from_pubkey |-> from_pubkey, to_pubkey |-> to_pubkey,
                              lamports |-> lamports]]
        /\ ret' = Returned(<<transfer(from_pubkey, to_pubkey, lamports)>>)

CallTransferWithSeed ==
    /\ call.fn = "idle" /\ builder = NoBuilder /\ UNCHANGED builder
    /\ \E from_pubkey \in {Key(2)}, from_base \in {Key(1), Key(3)}, from_seed \in Seeds,
          from_owner \in TokenPrograms, to_pubkey \in {Key(3)}, lamports \in Lamports :
        /\ call' = [fn |-> "transfer_with_seed",
                    args |-> [from_pubkey |-> from_pubkey, from_base |-> from_base,
                              from_seed |-> from_seed, from_owner |-> from_owner,
                              to_pubkey |-> to_pubkey, lamports |-> lamports]]
        /\ ret' = Returned(<<transfer_with_seed(from_pubkey, from_base, from_seed,
                                                from_owner, to_pubkey, lamports)>>)

CallAllocate ==
    /\ call.fn = "idle" /\ builder = NoBuilder /\ UNCHANGED builder
    /\ \E pubkey \in UserKeys, space \in Spaces :
        /\ call' = [fn |-> "allocate", args |-> [pubkey |-> pubkey, space |-> space]]
        /\ ret' = Returned(<<allocate(pubkey, space)>>)

CallAllocateWithSeed ==
    /\ call.fn = "idle" /\ builder = NoBuilder /\ UNCHANGED builder
    /\ \E address \in {Key(2)}, base \in {Key(1), Key(3)}, seed \in Seeds,
          space \in Spaces, owner \in TokenPrograms :
        /\ call' = [fn |-> "allocate_with_seed",
                    args |-> [address |-> address, base |-> base, seed |-> seed,
                              space |-> space, owner |-> owner]]
        /\ ret' = Returned(<<allocate_with_seed(address, base, seed, space, owner)>>)

CallTransferMany ==
    /\ call.fn = "idle" /\ builder = NoBuilder /\ UNCHANGED builder
    /\ \E from_pubkey \in {Key(1)},
          to_lamports \in SeqsUpTo({Key(2), Key(3)} \X {0, 1000}, MaxRecipients) :
        /\ call' = [fn |-> "transfer_many",
                    args |-> [from_pubkey |-> from_pubkey, to_lamports |-> to_lamports]]
        /\ ret' = Returned(transfer_many(from_pubkey, to_lamports))

TokenMetadataSamples ==
    {[update_authority |-> Key(1), mint |-> Key(2), name |-> name,
      symbol |-> symbol, uri |-> uri, additional_metadata |-> am] :
        name \in Strings, symbol \in {<<>>, StrU}, uri \in {StrX, StrKey},
        am \in SeqsUpTo(AdditionalPairs, MaxPairs)}

CallTlvSizeOf ==
    /\ call.fn = "idle" /\ builder = NoBuilder /\ UNCHANGED builder
    /\ \E self \in TokenMetadataSamples :
        /\ call' = [fn |-> "TokenMetadata::tlv_size_of", args |-> [self |-> self]]
        /\ ret' = ReturnedValue(tlv_size_of(self))

\* what a call returns, by the function it names
Outcome(c) ==
    LET a == c.args IN
    CASE c.fn = "request_heap_frame" -> Returned(<<request_heap_frame(a.bytes)>>)
      [] c.fn = "set_compute_unit_limit" -> Returned(<<set_compute_unit_limit(a.units)>>)
      [] c.fn = "set_compute_unit_price" ->
             Returned(<<set_compute_unit_price(a.micro_lamports)>>)
      [] c.fn = "set_loaded_accounts_data_size_limit" ->
             Returned(<<set_loaded_accounts_data_size_limit(a.bytes)>>)
      [] c.fn = "initialize_mint" ->
             Returned(<<initialize_mint(a.token_program_id, a.mint_pubkey,
                                        a.mint_authority_pubkey,
                                        a.freeze_authority_pubkey, a.decimals)>>)
      [] c.fn = "initialize_mint2" ->
             Returned(<<initialize_mint2(a.token_program_id, a.mint_pubkey,
                                         a.mint_authority_pubkey,
                                         a.freeze_authority_pubkey, a.decimals)>>)
      [] c.fn = "mint_to" ->
             Returned(<<mint_to(a.token_program_id, a.mint_pubkey, a.account_pubkey,
                                a.owner_pubkey, a.signer_pubkeys, a.amount)>>)
      [] c.fn = "close_account" ->
             Returned(<<close_account(a.token_program_id, a.account_pubkey,
                                      a.destination_pubkey, a.owner_pubkey,
                                      a.signer_pubkeys)>>)
      [] c.fn = "freeze_account" ->
             Returned(<<freeze_account(a.token_program_id, a.account_pubkey,
                                       a.mint_pubkey, a.owner_pubkey,
                                       a.signer_pubkeys)>>)
      [] c.fn = "create_associated_token_account" ->
             Returned(<<create_associated_token_account(
                            a.funding_address, a.wallet_address,
                            a.token_mint_address, a.token_program_id)>>)
      [] c.fn = "create_associated_token_account_idempotent" ->
             Returned(<<create_associated_token_account_idempotent(
                            a.funding_address, a.wallet_address,
                            a.token_mint_address, a.token_program_id)>>)
      [] c.fn = "create_fungible_22_ix" -> create_fungible_22_ix(a)
      [] c.fn = "Create::instruction_with_remaining_accounts" ->
             Returned(<<Create_instruction_with_remaining_accounts(
                            a.self, a.args, a.remaining_accounts)>>)
      [] c.fn = "UpdateV1::instruction_with_remaining_accounts" ->
             Returned(<<UpdateV1_instruction_with_remaining_accounts(
                            a.self, a.args, a.remaining_accounts)>>)
      [] c.fn = "CreateBuilder::instruction" -> CreateBuilder_instruction(a.self)
      [] c.fn = "UpdateV1Builder::instruction" -> UpdateV1Builder_instruction(a.self)
      [] c.fn = "update_asset_v1_ix" -> Returned(<<update_asset_v1_ix(a)>>)
      [] c.fn = "create_metadata_ix" -> create_metadata_ix(a)
      [] c.fn = "create_fungible_ix" -> create_fungible_ix(a)
      [] c.fn = "create_account" ->
             Returned(<<create_account(a.from_pubkey, a.to_pubkey, a.lamports,
                                       a.space, a.owner)>>)
      [] c.fn = "create_account_with_seed" ->
             Returned(<<create_account_with_seed(a.from_pubkey, a.to_pubkey, a.base,
                                                 a.seed, a.lamports, a.space,
                                                 a.owner)>>)
      [] c.fn = "assign" -> Returned(<<assign(a.pubkey, a.owner)>>)
      [] c.fn = "assign_with_seed" ->
             Returned(<<assign_with_seed(a.address, a.base, a.seed, a.owner)>>)
      [] c.fn = "transfer" ->
             Returned(<<transfer(a.from_pubkey, a.to_pubkey, a.lamports)>>)
      [] c.fn = "transfer_with_seed" ->
             Returned(<<transfer_with_seed(a.from_pubkey, a.from_base, a.from_seed,
                                           a.from_owner, a.to_pubkey, a.lamports)>>)
      [] c.fn = "allocate" -> Returned(<<allocate(a.pubkey, a.space)>>)
      [] c.fn = "allocate_with_seed" ->
             Returned(<<allocate_with_seed(a.address, a.base, a.seed, a.space,
                                           a.owner)>>)
      [] c.fn = "transfer_many" -> Returned(transfer_many(a.from_pubkey, a.to_lamports))
      [] c.fn = "TokenMetadata::tlv_size_of" -> ReturnedValue(tlv_size_of(a.self))
      [] c.fn = "try_from_slice" -> ReturnedValue(try_from_slice(a.T, a.v))

\* the orders in which an equal map may yield the same entries
Layouts(entries) ==
    {p \in [1..Len(entries) -> Range(entries)] : Range(p) = Range(entries)}

\* the calls whose arguments equal those of c: the same values, any HashMap
\* among them laid out in any order
EqualCalls(c) ==
    IF c.fn = "UpdateV1::instruction_with_remaining_accounts"
       /\ c.args.args.authorization_data.some
    THEN {[c EXCEPT !.args.args.authorization_data.val.payload.map = p] :
            p \in Layouts(c.args.args.authorization_data.val.payload.map)}
    ELSE IF c.fn = "UpdateV1Builder::instruction" /\ c.args.self.authorization_data.some
    THEN {[c EXCEPT !.args.self.authorization_data.val.payload.map = p] :
            p \in Layouts(c.args.self.authorization_data.val.payload.map)}
    ELSE {c}

\* the same function is called a second time with equal arguments
CallAgain ==
    /\ call.fn # "idle"
    /\ \E again \in EqualCalls(call) :
        /\ call' = again
        /\ ret' = Outcome(again)
    /\ UNCHANGED builder

\* values of the codec-encoded types
CodecValues(T) ==
    CASE T = "ComputeBudgetInstruction" ->
             {[variant |-> "RequestUnitsDeprecated", fields |-> <<1000, 1>>]}
             \cup {[variant |-> variant, fields |-> <<value>>] :
                     variant \in {"RequestHeapFrame", "SetComputeUnitLimit",
                                  "SetComputeUnitPrice",
                                  "SetLoadedAccountsDataSizeLimit"},
                     value \in {0, 50000, 2147483647}}
      [] T = "AssociatedTokenAccountInstruction" -> Range(AssociatedTokenAccountVariants)
      [] T = "CollectionToggle" ->
             {Toggle_None, Toggle_Clear, Toggle_Set([verified |-> TRUE, key |-> Key(3)]),
              Toggle_Set([verified |-> FALSE, key |-> Key(1)])}
      [] T = "CollectionDetailsToggle" ->
             {Toggle_None, Toggle_Clear, Toggle_Set([variant |-> "V1", size |-> 7]),
              Toggle_Set([variant |-> "V2", padding |-> <<1, 0, 0, 0, 0, 0, 0, 2>>])}
      [] T = "UsesToggle" ->
             {Toggle_None, Toggle_Clear,
              Toggle_Set([use_method |-> "Single", remaining |-> 2, total |-> 5])}
      [] T = "RuleSetToggle" -> {Toggle_None, Toggle_Clear, Toggle_Set(Key(1))}
      [] T = "UpdateField" ->
             {[field |-> field, value |-> value] :
                 field \in {[variant |-> "Name"], [variant |-> "Symbol"],
                            [variant |-> "Uri"], Field_Key(StrKey), Field_Key(<<>>)},
                 value \in {<<>>, StrVal}}

\* an encoding, an encoding cut short, or an encoding with bytes after it
SlicesOf(bytes) ==
    {SubSeq(bytes, 1, n) : n \in 0..Len(bytes)}
    \cup {bytes \o extra : extra \in {<<0>>, <<2, 0>>}}

CallTryFromSlice ==
    /\ call.fn = "idle" /\ builder = NoBuilder /\ UNCHANGED builder
    /\ \E T \in CodecTypes :
         \E x \in CodecValues(T) :
           \E v \in SlicesOf(to_vec(T, x)) :
              /\ call' = [fn |-> "try_from_slice", args |-> [T |-> T, v |-> v]]
              /\ ret' = ReturnedValue(try_from_slice(T, v))

\* the caller lets go of the builder
DropBuilder ==
    /\ call.fn = "idle" /\ builder # NoBuilder
    /\ builder' = NoBuilder
    /\ UNCHANGED <<call, ret>>

Next ==
    \/ CallRequestHeapFrame
    \/ CallSetComputeUnitLimit
    \/ CallSetComputeUnitPrice
    \/ CallSetLoadedAccountsDataSizeLimit
    \/ CallInitializeMint
    \/ CallInitializeMint2
    \/ CallMintTo
    \/ CallCloseAccount
    \/ CallFreezeAccount
    \/ CallCreateAssociatedTokenAccount
    \/ CallCreateAssociatedTokenAccountIdempotent
    \/ CallCreateFungible22
    \/ CallCreateInstruction
    \/ CallUpdateV1Instruction
    \/ CallCreateBuilderNew
    \/ CallCreateBuilderMetadata
    \/ CallCreateBuilderMasterEdition
    \/ CallCreateBuilderMint
    \/ CallCreateBuilderAuthority
    \/ CallCreateBuilderPayer
    \/ CallCreateBuilderUpdateAuthority
    \/ CallCreateBuilderSystemProgram
    \/ CallCreateBuilderSysvarInstructions
    \/ CallCreateBuilderSplTokenProgram
    \/ CallCreateBuilderCreateArgs
    \/ CallCreateBuilderAddRemainingAccount
    \/ CallCreateBuilderAddRemainingAccounts
    \/ CallCreateBuilderInstruction
    \/ CallUpdateV1BuilderNew
    \/ CallUpdateV1BuilderAuthority
    \/ CallUpdateV1BuilderDelegateRecord
    \/ CallUpdateV1BuilderToken
    \/ CallUpdateV1BuilderMint
    \/ CallUpdateV1BuilderMetadata
    \/ CallUpdateV1BuilderEdition
    \/ CallUpdateV1BuilderPayer
    \/ CallUpdateV1BuilderSystemProgram
    \/ CallUpdateV1BuilderSysvarInstructions
    \/ CallUpdateV1BuilderAuthorizationRulesProgram
    \/ CallUpdateV1BuilderAuthorizationRules
    \/ CallUpdateV1BuilderNewUpdateAuthority
    \/ CallUpdateV1BuilderData
    \/ CallUpdateV1BuilderPrimarySaleHappened
    \/ CallUpdateV1BuilderIsMutable
    \/ CallUpdateV1BuilderCollection
    \/ CallUpdateV1BuilderCollectionDetails
    \/ CallUpdateV1BuilderUses
    \/ CallUpdateV1BuilderRuleSet
    \/ CallUpdateV1BuilderAuthorizationData
    \/ CallUpdateV1BuilderAddRemainingAccount
    \/ CallUpdateV1BuilderAddRemainingAccounts
    \/ CallUpdateV1BuilderInstruction
    \/ DropBuilder
    \/ CallUpdateAssetV1Ix
    \/ CallCreateMetadataIx
    \/ CallCreateAccount
    \/ CallCreateAccountWithSeed
    \/ CallAssign
    \/ CallAssignWithSeed
    \/ CallTransfer
    \/ CallTransferWithSeed
    \/ CallAllocate
    \/ CallAllocateWithSeed
    \/ CallTransferMany
    \/ CallTlvSizeOf
    \/ CallAgain
    \/ CallTryFromSlice
    \/ CallCreateFungibleIx
    \/ Discard

Spec == Init /\ [][Next]_vars

(***************************************************************************)
(* Reading instructions back: which builder an instruction comes from is   *)
(* told by its program id and the leading bytes of its data.               *)
(***************************************************************************)
HasPrefix(data, prefix) ==
    Len(data) >= Len(prefix) /\ SubSeq(data, 1, Len(prefix)) = prefix

is_create_account(ix) ==
    ix.program_id = system_program_id /\ HasPrefix(ix.data, <<0, 0, 0, 0>>)
is_initialize_metadata_pointer(ix) ==
    ix.program_id = token22_program_id /\ HasPrefix(ix.data, <<39, 0>>)
is_initialize_mint_close_authority(ix) ==
    ix.program_id = token22_program_id /\ HasPrefix(ix.data, <<25>>)
is_initialize_mint2(ix) ==
    ix.program_id \in TokenPrograms /\ HasPrefix(ix.data, <<20>>)
is_initialize_metadata(ix) ==
    ix.program_id = token22_program_id /\ HasPrefix(ix.data, InitializeDiscriminator)
is_update_field(ix) ==
    ix.program_id = token22_program_id /\ HasPrefix(ix.data, UpdateFieldDiscriminator)

IxKind(ix) ==
    CASE is_create_account(ix) -> "create_account"
      [] is_initialize_metadata_pointer(ix) -> "initialize_metadata_pointer"
      [] is_initialize_mint_close_authority(ix) -> "initialize_mint_close_authority"
      [] is_initialize_mint2(ix) -> "initialize_mint2"
      [] is_initialize_metadata(ix) -> "initialize_metadata"
      [] is_update_field(ix) -> "update_field"
      [] OTHER -> "unknown"

Kinds(ixs) == [i \in 1..Len(ixs) |-> IxKind(ixs[i])]

\* the space and lamports fields of a CreateAccount payload
CreateAccount_lamports(ix) == from_le_bytes(SubSeq(ix.data, 5, 12))
CreateAccount_space(ix) == from_le_bytes(SubSeq(ix.data, 13, 20))

\* the instructions after create_account and before the first initialize_mint2
PreInit(ixs) ==
    LET m == CHOOSE i \in 1..Len(ixs) :
                 /\ is_initialize_mint2(ixs[i])
                 /\ \A j \in 1..(i - 1) : ~is_initialize_mint2(ixs[j])
    IN  SubSeq(ixs, 2, m - 1)

(***************************************************************************)
(* metaplex/extension.rs is not part of the sources at hand.  The account  *)
(* length of a mint with extensions follows the token-extension layout:    *)
(* a plain mint is 82 bytes; with extensions the mint is padded to the     *)
(* 165-byte account length, one account-type byte follows, then one TLV    *)
(* entry (2-byte type, 2-byte length, value) per extension.                *)
(***************************************************************************)
ExtensionType_value_len(kind) ==
    CASE kind = "metadata" -> 64            \* MetadataPointer: authority, address
      [] kind = "close_authority" -> 32     \* MintCloseAuthority
      [] kind = "permanent_delegate" -> 32  \* PermanentDelegate
      [] kind = "non_transferrable" -> 0    \* NonTransferable
      [] kind = "transfer_fee" -> 108       \* TransferFeeConfig
      [] kind = "interest_bearing" -> 52    \* InterestBearingConfig
      [] kind = "transfer_hook" -> 64       \* TransferHook

RECURSIVE TlvLen(_)
TlvLen(kinds) ==
    IF kinds = <<>> THEN 0
    ELSE 4 + ExtensionType_value_len(Head(kinds)) + TlvLen(Tail(kinds))

try_calculate_account_len(kinds) ==
    IF kinds = <<>> THEN 82 ELSE 165 + 1 + TlvLen(kinds)

(***************************************************************************)
(* Claims                                                                  *)
(***************************************************************************)
Cf22Returned == call.fn = "create_fungible_22_ix" /\ ~ret.panicked
Requested(kind) == call.args.extensions[kind].some
RequestKinds == [i \in 1..Len(call.args.request) |-> call.args.request[i].kind]

\* the additional key/value pairs of the requested metadata
RequestedPairs ==
    IF Requested("metadata") /\ call.args.extensions["metadata"].val.additional_metadata.some
    THEN call.args.extensions["metadata"].val.additional_metadata.val
    ELSE <<>>

\* the sequence of instruction kinds the mint-creation order prescribes
PrescribedKinds ==
    <<"create_account">>
    \o (IF Requested("metadata") THEN <<"initialize_metadata_pointer">> ELSE <<>>)
    \o (IF Requested("close_authority") THEN <<"initialize_mint_close_authority">> ELSE <<>>)
    \o <<"initialize_mint2">>
    \o (IF Requested("metadata")
        THEN <<"initialize_metadata">> \o [i \in 1..Len(RequestedPairs) |-> "update_field"]
        ELSE <<>>)

\* C1: create_fungible_22_ix returns unless a requested close_authority text
\* is not a valid address; whenever it returns, the instructions are exactly
\* create_account, then initialize_metadata_pointer (metadata requested), then
\* initialize_mint_close_authority (close authority requested), then one
\* initialize_mint2, then, with metadata, initialize_metadata and one
\* update_field per additional pair, carrying the pairs in their order; the
\* scenario decimals=6, metadata {X, X, u}, no pairs, close_authority=payer
\* gives the five instructions of the end-to-end scenario.
C1_MintCreationSequence ==
    /\ call.fn = "create_fungible_22_ix" =>
           (ret.panicked <=>
               /\ Requested("close_authority")
               /\ ~Pubkey_from_str(call.args.extensions["close_authority"].val).ok)
    /\ Cf22Returned =>
        /\ Kinds(ret.ixs) = PrescribedKinds
        /\ \A i \in 1..Len(RequestedPairs) :
              ret.ixs[Len(ret.ixs) - Len(RequestedPairs) + i].data =
                  UpdateFieldDiscriminator \o <<3>>
                  \o borsh_string(RequestedPairs[i][1])
                  \o borsh_string(RequestedPairs[i][2])
        /\ ( /\ call.args.decimals = 6
             /\ \A k \in Range(ExtensionFields) :
                    Requested(k) <=> k \in {"metadata", "close_authority"}
             /\ RequestedPairs = <<>> )
           => Kinds(ret.ixs) = <<"create_account", "initialize_metadata_pointer",
                                 "initialize_mint_close_authority", "initialize_mint2",
                                 "initialize_metadata">>

\* the end-to-end scenario was called and returned its five instructions
C1_Witness ==
    /\ Cf22Returned
    /\ call.args.decimals = 6
    /\ RequestKinds = <<"metadata", "close_authority">>
    /\ call.args.extensions["metadata"].val =
           [name |-> StrX, symbol |-> StrX, uri |-> StrU, additional_metadata |-> None]
    /\ Pubkey_from_str(call.args.extensions["close_authority"].val).key = call.args.payer
    /\ Len(ret.ixs) = 5

\* the pre-init instruction kinds a request asks for, in the request's order
RECURSIVE RequestedPreInitKinds(_)
RequestedPreInitKinds(kinds) ==
    IF kinds = <<>> THEN <<>>
    ELSE (CASE Head(kinds) = "metadata" -> <<"initialize_metadata_pointer">>
            [] Head(kinds) = "close_authority" -> <<"initialize_mint_close_authority">>
            [] OTHER -> <<>>)
         \o RequestedPreInitKinds(Tail(kinds))

Reverse(seq) == [i \in 1..Len(seq) |-> seq[Len(seq) + 1 - i]]

C4_EveryRequestedExtensionInitialized ==
    Cf22Returned =>
        LET pre == PreInit(ret.ixs) IN
        /\ Requested("metadata") =>
               \E i \in 1..Len(pre) : is_initialize_metadata_pointer(pre[i])
        /\ Requested("close_authority") =>
               \E i \in 1..Len(pre) : is_initialize_mint_close_authority(pre[i])
        /\ Len(pre) >= Cardinality({k \in {"metadata", "close_authority", "transfer_fee",
                                          "interest_bearing", "transfer_hook"} :
                                      Requested(k)})

CreateCalled == call.fn = "Create::instruction_with_remaining_accounts"

\* C5: a Create instruction has 9 accounts plus the remaining ones; without a
\* master_edition slot 1 holds the metadata program id, read-only and not a
\* signer; with or without master_edition and spl_token_program every other
\* account keeps its index.
C5_CreatePlaceholder ==
    CreateCalled =>
        LET self == call.args.self
            accounts == ret.ixs[1].accounts
            n == Len(call.args.remaining_accounts)
        IN  /\ Len(accounts) = 9 + n
            /\ ~self.master_edition.some =>
                   accounts[2] = [pubkey |-> metadata_program_id,
                                  is_signer |-> FALSE, is_writable |-> FALSE]
            /\ self.master_edition.some =>
                   accounts[2].pubkey = self.master_edition.val
            /\ accounts[1].pubkey = self.metadata
            /\ accounts[3].pubkey = self.mint[1]
            /\ accounts[4].pubkey = self.authority
            /\ accounts[5].pubkey = self.payer
            /\ accounts[6].pubkey = self.update_authority[1]
            /\ accounts[7].pubkey = self.system_program
            /\ accounts[8].pubkey = self.sysvar_instructions
            /\ accounts[9] = [pubkey |-> IF self.spl_token_program.some
                                         THEN self.spl_token_program.val
                                         ELSE metadata_program_id,
                              is_signer |-> FALSE, is_writable |-> FALSE]
            /\ \A i \in 1..n : accounts[9 + i] = call.args.remaining_accounts[i]

\* Create built without master_edition and without remaining accounts
C5_Witness ==
    /\ CreateCalled
    /\ ~call.args.self.master_edition.some
    /\ call.args.remaining_accounts = <<>>
    /\ Len(ret.ixs[1].accounts) = 9
    /\ ret.ixs[1].accounts[2].pubkey = metadata_program_id

UpdateV1Called == call.fn = "UpdateV1::instruction_with_remaining_accounts"

Placeholder ==
    [pubkey |-> metadata_program_id, is_signer |-> FALSE, is_writable |-> FALSE]

\* C6: an UpdateV1 instruction has 11 accounts plus the remaining ones; the
\* required accounts sit at 0, 3, 4, 6, 7, 8 and every omitted optional account
\* leaves the placeholder in its own slot 1, 2, 5, 9, 10.
C6_UpdateV1Slots ==
    UpdateV1Called =>
        LET self == call.args.self
            accounts == ret.ixs[1].accounts
            n == Len(call.args.remaining_accounts)
            Slot(opt) == IF opt.some
                         THEN [pubkey |-> opt.val, is_signer |-> FALSE,
                               is_writable |-> FALSE]
                         ELSE Placeholder
        IN  /\ Len(accounts) = 11 + n
            /\ accounts[1].pubkey = self.authority
            /\ accounts[4].pubkey = self.mint
            /\ accounts[5].pubkey = self.metadata
            /\ accounts[7].pubkey = self.payer
            /\ accounts[8].pubkey = self.system_program
            /\ accounts[9].pubkey = self.sysvar_instructions
            /\ accounts[2] = Slot(self.delegate_record)
            /\ accounts[3] = Slot(self.token)
            /\ accounts[6] = Slot(self.edition)
            /\ accounts[10] = Slot(self.authorization_rules_program)
            /\ accounts[11] = Slot(self.authorization_rules)
            /\ \A i \in 1..n : accounts[11 + i] = call.args.remaining_accounts[i]

\* UpdateV1 built with the token account omitted and the edition supplied
C6_Witness ==
    /\ UpdateV1Called
    /\ ~call.args.self.token.some
    /\ call.args.self.edition.some
    /\ ret.ixs[1].accounts[3] = Placeholder
    /\ Len(ret.ixs[1].accounts) = 11 + Len(call.args.remaining_accounts)

MultisigCalled == call.fn \in {"mint_to", "close_account", "freeze_account"}

\* C7: mint_to, close_account and freeze_account with n signer_pubkeys give
\* 3+n accounts; the owner at index 2 is read-only and signs exactly when
\* n = 0; entries 3..3+n are the signer_pubkeys in order, read-only signers.
C7_MultisigExclusivity ==
    MultisigCalled =>
        LET accounts == ret.ixs[1].accounts
            signers == call.args.signer_pubkeys
            n == Len(signers)
        IN  /\ Len(accounts) = 3 + n
            /\ accounts[3] = [pubkey |-> call.args.owner_pubkey,
                              is_signer |-> (n = 0), is_writable |-> FALSE]
            /\ \A i \in 1..n :
                   accounts[3 + i] = [pubkey |-> signers[i], is_signer |-> TRUE,
                                      is_writable |-> FALSE]

\* freeze_account with two cosigners: the owner does not sign
C7_Witness ==
    /\ call.fn = "freeze_account"
    /\ Len(call.args.signer_pubkeys) = 2
    /\ ~ret.ixs[1].accounts[3].is_signer
    /\ Len(ret.ixs[1].accounts) = 5

AtaCalled ==
    call.fn \in {"create_associated_token_account",
                 "create_associated_token_account_idempotent"}

\* C8: for the same arguments create_associated_token_account and
\* create_associated_token_account_idempotent agree on program id and account
\* list, and each has a one-byte data, the two bytes differing.
C8_IdempotentDiffersInDiscriminatorOnly ==
    AtaCalled =>
        LET a == call.args
            create == create_associated_token_account(
                          a.funding_address, a.wallet_address,
                          a.token_mint_address, a.token_program_id)
            idempotent == create_associated_token_account_idempotent(
                              a.funding_address, a.wallet_address,
                              a.token_mint_address, a.token_program_id)
            other == IF call.fn = "create_associated_token_account"
                     THEN idempotent ELSE create
            got == ret.ixs[1]
        IN  /\ got.program_id = other.program_id
            /\ got.accounts = other.accounts
            /\ Len(got.data) = 1 /\ Len(other.data) = 1
            /\ got.data # other.data

\* the idempotent form was called and carries the CreateIdempotent tag
C8_Witness ==
    /\ call.fn = "create_associated_token_account_idempotent"
    /\ call.args.funding_address # call.args.wallet_address
    /\ ret.ixs[1].data = <<1>>

\* C9: set_compute_unit_limit(units) targets the compute-budget program with
\* no accounts and five bytes of data: the SetComputeUnitLimit tag, then
\* units as four little-endian bytes; 50000 gives [tag, 0x50, 0xC3, 0, 0].
C9_SetComputeUnitLimitBytes ==
    call.fn = "set_compute_unit_limit" =>
        LET ix == ret.ixs[1] IN
        /\ ix.program_id = compute_budget_id
        /\ ix.accounts = <<>>
        /\ Len(ix.data) = 5
        /\ ix.data[1] = 2
        /\ from_le_bytes(SubSeq(ix.data, 2, 5)) = call.args.units
        /\ \A i \in 2..5 : ix.data[i] \in 0..255
        /\ call.args.units = 50000 => ix.data = <<2, 80, 195, 0, 0>>

C9_Witness ==
    /\ call.fn = "set_compute_unit_limit"
    /\ call.args.units = 50000
    /\ ret.ixs[1].data = <<2, 80, 195, 0, 0>>

ComputeBudgetEncoders ==
    {"request_heap_frame", "set_compute_unit_limit", "set_compute_unit_price",
     "set_loaded_accounts_data_size_limit"}

\* an encoder applied to a value
Encode(fn, v) ==
    CASE fn = "request_heap_frame" -> request_heap_frame(v)
      [] fn = "set_compute_unit_limit" -> set_compute_unit_limit(v)
      [] fn = "set_compute_unit_price" -> set_compute_unit_price(v)
      [] fn = "set_loaded_accounts_data_size_limit" ->
             set_loaded_accounts_data_size_limit(v)

EncoderValues(fn) == IF fn = "set_compute_unit_price" THEN U64Values ELSE U32Values

\* C10: the first data byte of a compute-budget encoder is the same for every
\* argument value, and differs from the first byte of each other encoder;
\* set_compute_unit_price(1000) and (999999) differ only after the first byte.
C10_DiscriminatorStability ==
    call.fn \in ComputeBudgetEncoders =>
        LET first == ret.ixs[1].data[1] IN
        /\ \A v \in EncoderValues(call.fn) : Encode(call.fn, v).data[1] = first
        /\ \A g \in ComputeBudgetEncoders \ {call.fn} :
              \A v \in EncoderValues(g) : Encode(g, v).data[1] # first
        /\ call.fn = "set_compute_unit_price" /\ call.args.micro_lamports = 999999 =>
              LET low == set_compute_unit_price(1000).data IN
              /\ low[1] = first
              /\ Tail(low) # Tail(ret.ixs[1].data)

C10_Witness ==
    /\ call.fn = "set_compute_unit_price"
    /\ call.args.micro_lamports = 999999
    /\ ret.ixs[1].data[1] = 3

CreateBuilderCalled == call.fn = "CreateBuilder::instruction"
UpdateV1BuilderCalled == call.fn = "UpdateV1Builder::instruction"

CreateBuilderRequired ==
    {"metadata", "mint", "authority", "payer", "update_authority", "create_args"}
UpdateV1BuilderRequired == {"authority", "mint", "metadata", "payer"}

\* C11: instruction() on a staged builder fails exactly when a required field
\* was never set (metadata, mint, authority, payer, update_authority and
\* create_args for CreateBuilder; authority, mint, metadata and payer for
\* UpdateV1Builder); no unset optional field makes it fail.
C11_FailsExactlyOnMissingRequired ==
    /\ CreateBuilderCalled =>
           (ret.panicked <=> \E f \in CreateBuilderRequired : ~call.args.self[f].some)
    /\ UpdateV1BuilderCalled =>
           (ret.panicked <=> \E f \in UpdateV1BuilderRequired : ~call.args.self[f].some)
    /\ (CreateBuilderCalled \/ UpdateV1BuilderCalled) /\ ~ret.panicked => Len(ret.ixs) = 1

\* instruction() on a CreateBuilder that lacks only update_authority, and fails
C11_Witness ==
    /\ CreateBuilderCalled
    /\ \A f \in CreateBuilderRequired :
           call.args.self[f].some <=> f # "update_authority"
    /\ OptionalStaged(call.args.self) = 0
    /\ ret.panicked

\* C12: an unset system_program or sysvar_instructions is built as the system
\* program id (32 zero bytes) or the instructions-sysvar id, a set one as the
\* caller's key; both are read-only non-signers, at indices 6 and 7 of Create
\* and 7 and 8 of UpdateV1.
C12_DefaultedAccounts ==
    (CreateBuilderCalled \/ UpdateV1BuilderCalled) /\ ~ret.panicked =>
        LET self == call.args.self
            at == IF CreateBuilderCalled THEN 7 ELSE 8
            accounts == ret.ixs[1].accounts
        IN  /\ accounts[at] =
                   [pubkey |-> IF self.system_program.some
                               THEN self.system_program.val
                               ELSE [i \in 1..32 |-> 0],
                    is_signer |-> FALSE, is_writable |-> FALSE]
            /\ accounts[at + 1] =
                   [pubkey |-> IF self.sysvar_instructions.some
                               THEN self.sysvar_instructions.val
                               ELSE sysvar_program_id,
                    is_signer |-> FALSE, is_writable |-> FALSE]

\* an UpdateV1Builder with system_program unset and sysvar_instructions set
C12_Witness ==
    /\ UpdateV1BuilderCalled /\ ~ret.panicked
    /\ ~call.args.self.system_program.some
    /\ call.args.self.sysvar_instructions.some
    /\ ret.ixs[1].accounts[8].pubkey = system_program_id
    /\ ret.ixs[1].accounts[9].pubkey = Key(8)

\* the arguments an UpdateV1 instruction was built from
UpdateV1ArgsOfCall ==
    IF UpdateV1BuilderCalled THEN UpdateV1Builder_args(call.args.self)
    ELSE call.args.args

ToggleTag(t) ==
    CASE t.variant = "None" -> 0 [] t.variant = "Clear" -> 1 [] t.variant = "Set" -> 2

\* C13: every UpdateV1 instruction carries one tag byte for each of
\* collection, collection_details, uses and rule_set, after the discriminator
\* and the four Option fields, a None toggle as the tag 0; built with no
\* optional argument the payload is the discriminator, four absent flags, four
\* None tags and the absent authorization_data flag.
C13_TogglesAlwaysEncoded ==
    (UpdateV1Called \/ (UpdateV1BuilderCalled /\ ~ret.panicked)) =>
        LET a == UpdateV1ArgsOfCall
            data == ret.ixs[1].data
            at_collection ==
                Len(UpdateV1InstructionData_new)
                + (IF a.new_update_authority.some THEN 33 ELSE 1)
                + (IF a.data.some THEN 1 + Len(Data_serialize(a.data.val)) ELSE 1)
                + (IF a.primary_sale_happened.some THEN 2 ELSE 1)
                + (IF a.is_mutable.some THEN 2 ELSE 1)
            at_collection_details ==
                at_collection + 1 + (IF a.collection.variant = "Set" THEN 33 ELSE 0)
            at_uses ==
                at_collection_details + 1
                + (IF a.collection_details.variant = "Set" THEN 9 ELSE 0)
            at_rule_set ==
                at_uses + 1 + (IF a.uses.variant = "Set" THEN 17 ELSE 0)
            at_authorization_data ==
                at_rule_set + 1 + (IF a.rule_set.variant = "Set" THEN 32 ELSE 0)
        IN  /\ Len(data) > at_authorization_data
            /\ data[at_collection + 1] = ToggleTag(a.collection)
            /\ data[at_collection_details + 1] = ToggleTag(a.collection_details)
            /\ data[at_uses + 1] = ToggleTag(a.uses)
            /\ data[at_rule_set + 1] = ToggleTag(a.rule_set)
            /\ data[at_authorization_data + 1] =
                   (IF a.authorization_data.some THEN 1 ELSE 0)
            /\ (UpdateV1BuilderCalled
                /\ \A f \in UpdateV1BuilderOptional \ {"system_program", "sysvar_instructions"} :
                       ~call.args.self[f].some)
               => data = <<50, 0, 0, 0, 0, 0, 0, 0, 0, 0, 0>>

\* an UpdateV1Builder with no optional argument set, and one toggle left
\* unset beside a toggle that is set
C13_Witness ==
    /\ UpdateV1BuilderCalled /\ ~ret.panicked
    /\ ~call.args.self.collection.some
    /\ call.args.self.uses.some /\ call.args.self.uses.val.variant = "Set"
    /\ Len(ret.ixs[1].data) = 11 + 17

\* C14: for every input update_asset_v1_ix encodes the data field from its
\* arguments and nothing else: new_update_authority, primary_sale_happened,
\* is_mutable and authorization_data absent, and collection,
\* collection_details, uses and rule_set as the None tag.
C14_UpdateLeavesTogglesNone ==
    call.fn = "update_asset_v1_ix" =>
        LET a == call.args
            creators ==
                IF a.creators.some
                THEN <<1>> \o to_le_bytes(Len(a.creators.val), 4)
                     \o Flatten([i \in 1..Len(a.creators.val) |->
                                    a.creators.val[i].address
                                    \o <<IF a.creators.val[i].verified THEN 1 ELSE 0,
                                         a.creators.val[i].share>>])
                ELSE <<0>>
        IN  ret.ixs[1].data =
                <<50, 0>>
                \o <<0>>
                \o <<1>> \o borsh_string(a.name) \o borsh_string(a.symbol)
                   \o borsh_string(a.uri) \o to_le_bytes(a.seller_fee_basis_points, 2)
                   \o creators
                \o <<0>> \o <<0>>
                \o <<0, 0, 0, 0>>
                \o <<0>>

\* an update with a creator and a non-zero fee
C14_Witness ==
    /\ call.fn = "update_asset_v1_ix"
    /\ call.args.seller_fee_basis_points = 500
    /\ call.args.creators.some /\ Len(call.args.creators.val) = 1
    /\ SubSeq(ret.ixs[1].data, Len(ret.ixs[1].data) - 6, Len(ret.ixs[1].data))
           = <<0, 0, 0, 0, 0, 0, 0>>

\* the textual address a call was given, if it takes one
AddressTextOfCall ==
    CASE call.fn = "create_metadata_ix" -> Some(call.args.mint)
      [] call.fn = "create_fungible_22_ix" -> call.args.extensions["close_authority"]
      [] OTHER -> None

\* C15: a textual address that is not a valid encoding (the mint of
\* create_metadata_ix, the close_authority of create_fungible_22_ix) comes
\* back to the caller as an error value: the call neither aborts nor yields
\* an instruction.
C15_MalformedAddressIsReturnedAsError ==
    (AddressTextOfCall.some /\ ~Pubkey_from_str(AddressTextOfCall.val).ok) =>
        ~ret.panicked /\ ret.ixs = <<>>

SystemBuilders ==
    {"create_account", "create_account_with_seed", "assign", "assign_with_seed",
     "transfer", "transfer_with_seed", "allocate", "allocate_with_seed"}

\* the number the system program knows a builder's variant by
SystemVariantNumber ==
    CASE call.fn = "create_account" -> 0
      [] call.fn = "assign" -> 1
      [] call.fn = "transfer" -> 2
      [] call.fn = "create_account_with_seed" -> 3
      [] call.fn = "allocate" -> 8
      [] call.fn = "allocate_with_seed" -> 9
      [] call.fn = "assign_with_seed" -> 10
      [] call.fn = "transfer_with_seed" -> 11

\* a seed as the payload carries it: eight bytes of length, then the text
SeedBytes(seed) == <<Len(seed), 0, 0, 0, 0, 0, 0, 0>> \o seed

\* the argument bytes of a system-program call, in the variant's field order
SystemArgumentBytes ==
    LET a == call.args IN
    CASE call.fn = "create_account" ->
             to_le_bytes(a.lamports, 8) \o to_le_bytes(a.space, 8) \o a.owner
      [] call.fn = "assign" -> a.owner
      [] call.fn = "transfer" -> to_le_bytes(a.lamports, 8)
      [] call.fn = "create_account_with_seed" ->
             a.base \o SeedBytes(a.seed) \o to_le_bytes(a.lamports, 8)
             \o to_le_bytes(a.space, 8) \o a.owner
      [] call.fn = "allocate" -> to_le_bytes(a.space, 8)
      [] call.fn = "allocate_with_seed" ->
             a.base \o SeedBytes(a.seed) \o to_le_bytes(a.space, 8) \o a.owner
      [] call.fn = "assign_with_seed" -> a.base \o SeedBytes(a.seed) \o a.owner
      [] call.fn = "transfer_with_seed" ->
             to_le_bytes(a.lamports, 8) \o SeedBytes(a.from_seed) \o a.from_owner

\* C16 as stated: the data of every system-program instruction is a single
\* discriminator byte followed, from offset 1, by the variant's argument bytes.
C16_SystemDiscriminatorIsOneByte ==
    call.fn \in SystemBuilders =>
        ret.ixs[1].data = <<SystemVariantNumber>> \o SystemArgumentBytes

\* C16 amended: the data of every system-program instruction begins with the
\* variant index as four little-endian bytes (the index, then three zero
\* bytes) and the variant's argument bytes start at offset 4.
C16_SystemDiscriminatorIsFourBytes ==
    call.fn \in SystemBuilders =>
        /\ ret.ixs[1].program_id = system_program_id
        /\ ret.ixs[1].data = <<SystemVariantNumber, 0, 0, 0>> \o SystemArgumentBytes

\* transfer_with_seed with a non-empty seed
C16_Witness ==
    /\ call.fn = "transfer_with_seed"
    /\ call.args.from_seed # <<>>
    /\ call.args.lamports = 1000
    /\ SubSeq(ret.ixs[1].data, 1, 12) = <<11, 0, 0, 0, 232, 3, 0, 0, 0, 0, 0, 0>>

\* the Create or UpdateV1 arguments of a call, encoded
MetadataArgumentBytes ==
    IF CreateCalled THEN CreateArgs_serialize(call.args.args.create_args)
    ELSE IF CreateBuilderCalled THEN CreateArgs_serialize(call.args.self.create_args.val)
    ELSE UpdateV1InstructionArgs_serialize(UpdateV1ArgsOfCall)

MetadataInstructionBuilt ==
    \/ CreateCalled \/ UpdateV1Called
    \/ (CreateBuilderCalled \/ UpdateV1BuilderCalled) /\ ~ret.panicked

\* C17 as stated: the data of every Create and UpdateV1 instruction is an
\* eight-byte discriminator followed, from offset 8, by the encoded arguments.
C17_MetadataDiscriminatorIsEightBytes ==
    MetadataInstructionBuilt =>
        LET data == ret.ixs[1].data IN
        /\ Len(data) = 8 + Len(MetadataArgumentBytes)
        /\ SubSeq(data, 9, Len(data)) = MetadataArgumentBytes

\* C17 amended: the data of a Create instruction is the single byte 42
\* followed, from offset 1, by the encoded CreateArgs; the data of an UpdateV1
\* instruction is the two bytes 50, 0 followed, from offset 2, by the encoded
\* update arguments.
C17_MetadataDiscriminatorIsShort ==
    MetadataInstructionBuilt =>
        LET data == ret.ixs[1].data IN
        IF CreateCalled \/ CreateBuilderCalled
        THEN data = <<42>> \o MetadataArgumentBytes
        ELSE data = <<50, 0>> \o MetadataArgumentBytes

\* a Create instruction whose second byte is already the CreateArgs::V1 tag
\* and whose name length follows
C17_Witness ==
    /\ CreateCalled
    /\ call.args.args.create_args.name = StrX
    /\ SubSeq(ret.ixs[1].data, 1, 7) = <<42, 0, 1, 0, 0, 0, 88>>

\* C18: transfer_many(from, to_lamports) returns one instruction per pair, in
\* the order of the list, the i-th being transfer(from, recipient i, amount i):
\* the system program, [from writable signer, recipient writable non-signer],
\* the Transfer tag and the amount; nothing is merged, dropped or reordered.
C18_TransferManyIsPointwise ==
    call.fn = "transfer_many" =>
        LET from == call.args.from_pubkey
            to == call.args.to_lamports
        IN  /\ Len(ret.ixs) = Len(to)
            /\ \A i \in 1..Len(to) :
                   /\ ret.ixs[i] = transfer(from, to[i][1], to[i][2])
                   /\ ret.ixs[i].program_id = system_program_id
                   /\ ret.ixs[i].accounts =
                          <<[pubkey |-> from, is_signer |-> TRUE, is_writable |-> TRUE],
                            [pubkey |-> to[i][1], is_signer |-> FALSE,
                             is_writable |-> TRUE]>>
                   /\ ret.ixs[i].data = <<2, 0, 0, 0>> \o to_le_bytes(to[i][2], 8)

\* two pairs for different recipients and amounts
C18_Witness ==
    /\ call.fn = "transfer_many"
    /\ Len(call.args.to_lamports) = 2
    /\ call.args.to_lamports[1] = <<Key(3), 1000>>
    /\ call.args.to_lamports[2] = <<Key(2), 0>>
    /\ Len(ret.ixs) = 2

\* C19: for the same arguments initialize_mint2 has the single account
\* [mint, writable, non-signer] and initialize_mint has that account followed
\* by the read-only, non-signer rent sysvar; the first data byte differs and
\* the bytes after it (decimals, mint authority, freeze-authority flag and
\* key) are the same.
C19_InitializeMintVariants ==
    call.fn \in {"initialize_mint", "initialize_mint2"} =>
        LET a == call.args
            one == initialize_mint(a.token_program_id, a.mint_pubkey,
                                   a.mint_authority_pubkey,
                                   a.freeze_authority_pubkey, a.decimals)
            two == initialize_mint2(a.token_program_id, a.mint_pubkey,
                                    a.mint_authority_pubkey,
                                    a.freeze_authority_pubkey, a.decimals)
            mint == [pubkey |-> a.mint_pubkey, is_signer |-> FALSE, is_writable |-> TRUE]
            rent == [pubkey |-> SYSVAR_ID, is_signer |-> FALSE, is_writable |-> FALSE]
        IN  /\ ret.ixs[1] = (IF call.fn = "initialize_mint" THEN one ELSE two)
            /\ one.program_id = two.program_id
            /\ two.accounts = <<mint>>
            /\ one.accounts = <<mint, rent>>
            /\ one.data[1] # two.data[1]
            /\ Tail(one.data) = Tail(two.data)
            /\ Tail(two.data) =
                   <<a.decimals>> \o a.mint_authority_pubkey
                   \o (IF a.freeze_authority_pubkey.some
                       THEN <<1>> \o a.freeze_authority_pubkey.val ELSE <<0>>)

\* initialize_mint2 with a freeze authority
C19_Witness ==
    /\ call.fn = "initialize_mint2"
    /\ call.args.freeze_authority_pubkey.some
    /\ Len(ret.ixs[1].accounts) = 1
    /\ Len(ret.ixs[1].data) = 67

\* C20: the account at index 1 of a create / create_idempotent instruction is
\* get_associated_token_address_with_program_id(wallet, mint, token program),
\* the program-derived address under the associated-account program id of the
\* seeds wallet, token program, mint, in that order.
C20_AssociatedAddressDerivation ==
    AtaCalled =>
        LET a == call.args
            derived == find_program_address(
                           <<a.wallet_address, a.token_program_id, a.token_mint_address>>,
                           associated_account_program_id)
        IN  /\ ret.ixs[1].accounts[2].pubkey = derived
            /\ get_associated_token_address_with_program_id(
                   a.wallet_address, a.token_mint_address, a.token_program_id) = derived
            /\ derived # find_program_address(
                             <<a.wallet_address, a.token_mint_address, a.token_program_id>>,
                             associated_account_program_id)

\* an associated account for a wallet other than the funding account
C20_Witness ==
    /\ call.fn = "create_associated_token_account"
    /\ call.args.wallet_address # call.args.funding_address
    /\ call.args.wallet_address # call.args.token_mint_address
    /\ ret.ixs[1].accounts[2].pubkey =
           get_associated_token_address_with_program_id(
               call.args.wallet_address, call.args.token_mint_address,
               call.args.token_program_id)

\* the bytes a list of pairs takes: two length-prefixed strings each
RECURSIVE PairsSize(_)
PairsSize(pairs) ==
    IF pairs = <<>> THEN 0
    ELSE 4 + Len(Head(pairs)[1]) + 4 + Len(Head(pairs)[2]) + PairsSize(Tail(pairs))

\* C21: tlv_size_of returns 10 plus the length of the record's encoded body;
\* the length the counting pass reports is the length of the bytes the
\* encoder emits, 32 + 32 + (4 + |name|) + (4 + |symbol|) + (4 + |uri|) + 4 +
\* the sum over the additional pairs of (4 + |key| + 4 + |value|).
C21_TlvSizeIsHeaderPlusBody ==
    call.fn = "TokenMetadata::tlv_size_of" =>
        LET self == call.args.self
            body == borsh_to_vec(TokenMetadata_serialize(self))
        IN  /\ ~ret.panicked
            /\ ret.value = 10 + Len(body)
            /\ Len(body) = 32 + 32 + (4 + Len(self.name)) + (4 + Len(self.symbol))
                           + (4 + Len(self.uri)) + 4
                           + PairsSize(self.additional_metadata)
            /\ body = self.update_authority \o self.mint
                      \o borsh_string(self.name) \o borsh_string(self.symbol)
                      \o borsh_string(self.uri)
                      \o borsh_u32(Len(self.additional_metadata))
                      \o Flatten([i \in 1..Len(self.additional_metadata) |->
                                    borsh_string(self.additional_metadata[i][1])
                                    \o borsh_string(self.additional_metadata[i][2])])

\* a record with two additional pairs of different sizes: 10 + 80 + 2 + 1 + 2
\* + (4 + 2 + 4 + 1) + (4 + 1 + 4 + 1)
C21_Witness ==
    /\ call.fn = "TokenMetadata::tlv_size_of"
    /\ call.args.self.name = StrKey
    /\ call.args.self.symbol = StrU
    /\ call.args.self.uri = StrKey
    /\ call.args.self.additional_metadata = <<<<StrKey, StrVal>>, <<StrX, StrU>>>>
    /\ ret.value = 116

StrictPrefix(a, b) == Len(a) < Len(b) /\ a = SubSeq(b, 1, Len(a))

CreateInstructionBuilt ==
    /\ call.fn \in {"Create::instruction_with_remaining_accounts",
                    "CreateBuilder::instruction", "create_fungible_ix",
                    "create_metadata_ix"}
    /\ ~ret.panicked

\* the (key, signer) pairs the caller gave for mint and update_authority
CreateMintOfCall ==
    CASE CreateCalled -> call.args.self.mint
      [] CreateBuilderCalled -> call.args.self.mint.val
      [] call.fn = "create_fungible_ix" -> <<call.args.mint, TRUE>>
      [] call.fn = "create_metadata_ix" -> <<Pubkey_from_str(call.args.mint).key, FALSE>>

CreateUpdateAuthorityOfCall ==
    CASE CreateCalled -> call.args.self.update_authority
      [] CreateBuilderCalled -> call.args.self.update_authority.val
      [] OTHER -> <<call.args.payer, TRUE>>

Meta(pubkey, is_signer, is_writable) ==
    [pubkey |-> pubkey, is_signer |-> is_signer, is_writable |-> is_writable]

\* the account list each system-program variant documents, from the call's
\* arguments
SystemAccountsDocumented ==
    LET a == call.args IN
    CASE call.fn = "create_account" ->
             <<Meta(a.from_pubkey, TRUE, TRUE), Meta(a.to_pubkey, TRUE, TRUE)>>
      [] call.fn = "create_account_with_seed" ->
             <<Meta(a.from_pubkey, TRUE, TRUE), Meta(a.to_pubkey, FALSE, TRUE),
               Meta(a.base, TRUE, FALSE)>>
      [] call.fn \in {"assign", "allocate"} -> <<Meta(a.pubkey, TRUE, TRUE)>>
      [] call.fn \in {"assign_with_seed", "allocate_with_seed"} ->
             <<Meta(a.address, FALSE, TRUE), Meta(a.base, TRUE, FALSE)>>
      [] call.fn = "transfer" ->
             <<Meta(a.from_pubkey, TRUE, TRUE), Meta(a.to_pubkey, FALSE, TRUE)>>
      [] call.fn = "transfer_with_seed" ->
             <<Meta(a.from_pubkey, FALSE, TRUE), Meta(a.from_base, TRUE, FALSE),
               Meta(a.to_pubkey, FALSE, TRUE)>>

\* C25: every system-program builder emits the account list documented for
\* its variant, in that order and with those flags, and targets the system
\* program id.
C25_SystemAccountLists ==
    call.fn \in SystemBuilders =>
        /\ Len(ret.ixs) = 1
        /\ ret.ixs[1].program_id = system_program_id
        /\ ret.ixs[1].accounts = SystemAccountsDocumented

\* create_account_with_seed whose base is not the funding account
C25_Witness ==
    /\ call.fn = "create_account_with_seed"
    /\ call.args.base # call.args.from_pubkey
    /\ Len(ret.ixs[1].accounts) = 3
    /\ ~ret.ixs[1].accounts[2].is_signer
    /\ ret.ixs[1].accounts[3] = Meta(call.args.base, TRUE, FALSE)

\* C26: every create / create_idempotent associated-account instruction
\* targets the associated-account program and has exactly six accounts:
\* funding account (writable signer), associated token account (writable),
\* wallet, mint, system program and token program (read-only), none of the
\* last five a signer.
C26_AssociatedAccountList ==
    AtaCalled =>
        LET a == call.args
            ata == find_program_address(
                       <<a.wallet_address, a.token_program_id, a.token_mint_address>>,
                       associated_account_program_id)
        IN  /\ Len(ret.ixs) = 1
            /\ ret.ixs[1].program_id = associated_account_program_id
            /\ ret.ixs[1].accounts =
                   <<Meta(a.funding_address, TRUE, TRUE),
                     Meta(ata, FALSE, TRUE),
                     Meta(a.wallet_address, FALSE, FALSE),
                     Meta(a.token_mint_address, FALSE, FALSE),
                     Meta(system_program_id, FALSE, FALSE),
                     Meta(a.token_program_id, FALSE, FALSE)>>

\* an idempotent create for the token-extension program, funded by someone
\* other than the wallet
C26_Witness ==
    /\ call.fn = "create_associated_token_account_idempotent"
    /\ call.args.token_program_id = token22_program_id
    /\ call.args.funding_address # call.args.wallet_address
    /\ Len(ret.ixs[1].accounts) = 6
    /\ ret.ixs[1].accounts[1] = Meta(call.args.funding_address, TRUE, TRUE)
    /\ ret.ixs[1].accounts[6] = Meta(token22_program_id, FALSE, FALSE)

BuilderInstructionFns == {"CreateBuilder::instruction", "UpdateV1Builder::instruction"}

\* the fields of the staged builder that a step changed
ChangedFields == {f \in DOMAIN builder : builder'[f] # builder[f]}

\* a setter call: the same builder, with some field written
SetterStep ==
    /\ builder.kind # "none" /\ builder'.kind = builder.kind
    /\ builder' # builder

\* the 1-based account slot of each optional account a setter can clear
ClearableSlot(kind) ==
    IF kind = "CreateBuilder"
    THEN [master_edition |-> 2, spl_token_program |-> 9]
    ELSE [delegate_record |-> 2, token |-> 3, edition |-> 6,
          authorization_rules_program |-> 10, authorization_rules |-> 11]

\* what instruction() returns for a builder
BuiltFrom(b) ==
    Outcome([fn |-> b.kind \o "::instruction", args |-> [self |-> b]])

\* C27: a setter writes its own field and no other, so the built instruction
\* depends on the last value of each field and not on the order of the setter
\* calls; clearing an optional account restores the placeholder in its slot;
\* instruction() leaves the builder as it was, and what it returned is what a
\* second call on the same builder returns.
C27_BuilderSettersAndInstruction ==
    [][/\ SetterStep =>
            /\ Cardinality(ChangedFields) = 1
            /\ "remaining_accounts" \in ChangedFields =>
                   /\ Len(builder'.remaining_accounts) > Len(builder.remaining_accounts)
                   /\ SubSeq(builder'.remaining_accounts, 1,
                             Len(builder.remaining_accounts))
                          = builder.remaining_accounts
            /\ call' = call /\ ret' = ret
            /\ \A f \in DOMAIN ClearableSlot(builder.kind) :
                   (builder[f].some /\ ~builder'[f].some /\ ~BuiltFrom(builder').panicked)
                       => BuiltFrom(builder').ixs[1].accounts[ClearableSlot(builder.kind)[f]]
                              = Placeholder
       /\ call'.fn \in BuilderInstructionFns =>
            /\ call.fn # "idle" => (builder' = builder /\ ret' = ret)
            /\ call.fn = "idle" => (builder' = builder /\ call'.args.self = builder)
            /\ ret' = BuiltFrom(builder')
      ]_vars

\* instruction() has returned for a CreateBuilder that holds two remaining
\* accounts and no master edition: the builder still holds every field it was
\* built from and slot 1 is the placeholder
C27_Witness ==
    /\ CreateBuilderCalled /\ ~ret.panicked
    /\ builder = call.args.self
    /\ Len(builder.remaining_accounts) = 2
    /\ ~builder.master_edition.some
    /\ ret.ixs[1].accounts[2] = Placeholder
    /\ Len(ret.ixs[1].accounts) = 11

\* the number of fixed account slots of the instruction a builder builds
FixedSlots(kind) == IF kind = "CreateBuilder" THEN 9 ELSE 11

\* C28: the accounts added to a builder accumulate in the order of the calls,
\* and the built instruction carries them after the fixed slots (9 for Create,
\* 11 for UpdateV1) in that order, keys and flags unchanged, repeated accounts
\* kept; the fixed slots are those of the same builder without added accounts.
C28_RemainingAccountsAppended ==
    [][/\ (SetterStep /\ "remaining_accounts" \in ChangedFields) =>
            \E added \in SeqsUpTo(RemainingMetas, MaxOptional) :
                /\ Len(added) > 0
                /\ builder'.remaining_accounts = builder.remaining_accounts \o added
       /\ (call'.fn \in BuilderInstructionFns /\ ~ret'.panicked) =>
            LET self == call'.args.self
                fixed == FixedSlots(self.kind)
                n == Len(self.remaining_accounts)
                accounts == ret'.ixs[1].accounts
                bare == BuiltFrom([self EXCEPT !.remaining_accounts = <<>>])
            IN  /\ Len(accounts) = fixed + n
                /\ \A i \in 1..n : accounts[fixed + i] = self.remaining_accounts[i]
                /\ SubSeq(accounts, 1, fixed) = bare.ixs[1].accounts
                /\ ret'.ixs[1].data = bare.ixs[1].data
      ]_vars

\* an UpdateV1Builder to which the same account was added twice: the built
\* instruction carries it at 11 and at 12
C28_Witness ==
    /\ UpdateV1BuilderCalled /\ ~ret.panicked
    /\ call.args.self.remaining_accounts
           = <<AccountMeta_new_readonly(Key(8), TRUE), AccountMeta_new_readonly(Key(8), TRUE)>>
    /\ Len(ret.ixs[1].accounts) = 13
    /\ ret.ixs[1].accounts[12] = AccountMeta_new_readonly(Key(8), TRUE)
    /\ ret.ixs[1].accounts[13] = ret.ixs[1].accounts[12]

\* the owner field of a CreateAccount payload: after the u32 variant index,
\* the u64 lamports and the u64 space
CreateAccount_owner(ix) == SubSeq(ix.data, 21, 52)

\* the authority and the metadata address of an initialize_metadata_pointer
\* payload, after its two leading bytes
MetadataPointer_authority(ix) == SubSeq(ix.data, 3, 34)
MetadataPointer_metadata_address(ix) == SubSeq(ix.data, 35, 66)

\* the mint authority and the optional freeze authority of an
\* initialize_mint2 payload, after the tag and the decimals
InitializeMint2_mint_authority(ix) == SubSeq(ix.data, 3, 34)
InitializeMint2_freeze_authority(ix) == SubSeq(ix.data, 35, Len(ix.data))

\* C29: in one create_fungible_22_ix result the create_account instruction
\* goes to the system program and makes the token-extension program the owner
\* of the mint account; every later instruction goes to the token-extension
\* program with the mint as its first, writable account; the metadata pointer
\* names the mint as metadata address, which is the account initialize and
\* every update_field write to; and the payer is the pointer authority, the
\* mint authority, the freeze authority and the metadata update authority.
C29_Fungible22Consistent ==
    Cf22Returned =>
        LET ixs == ret.ixs
            mint == call.args.mint
            payer == call.args.payer
        IN  /\ ixs[1].program_id = system_program_id
            /\ is_create_account(ixs[1])
            /\ ixs[1].accounts[2].pubkey = mint
            /\ CreateAccount_owner(ixs[1]) = token22_program_id
            /\ \A i \in 2..Len(ixs) :
                   /\ ixs[i].program_id = token22_program_id
                   /\ ixs[i].accounts[1].pubkey = mint
                   /\ ixs[i].accounts[1].is_writable
                   /\ is_initialize_metadata_pointer(ixs[i]) =>
                          /\ MetadataPointer_metadata_address(ixs[i]) = mint
                          /\ MetadataPointer_authority(ixs[i]) = payer
                   /\ is_initialize_mint2(ixs[i]) =>
                          /\ InitializeMint2_mint_authority(ixs[i]) = payer
                          /\ InitializeMint2_freeze_authority(ixs[i]) = <<1>> \o payer
                   /\ is_initialize_metadata(ixs[i]) =>
                          /\ ixs[i].accounts[1] = Meta(mint, FALSE, TRUE)
                          /\ ixs[i].accounts[2].pubkey = payer
                          /\ ixs[i].accounts[3].pubkey = mint
                          /\ ixs[i].accounts[4] = Meta(payer, TRUE, FALSE)
                   /\ is_update_field(ixs[i]) =>
                          /\ ixs[i].accounts[1] = Meta(mint, FALSE, TRUE)
                          /\ ixs[i].accounts[2] = Meta(payer, TRUE, FALSE)
            /\ \E i \in 2..Len(ixs) : is_initialize_mint2(ixs[i])
            /\ Requested("metadata") =>
                   /\ \E i \in 2..Len(ixs) : is_initialize_metadata_pointer(ixs[i])
                   /\ \E i \in 2..Len(ixs) : is_initialize_metadata(ixs[i])

\* a mint requested with metadata, two additional pairs and a close authority:
\* seven instructions, the last two of them update_field
C29_Witness ==
    /\ Cf22Returned
    /\ Requested("metadata") /\ Requested("close_authority")
    /\ Len(ret.ixs) = 7
    /\ is_initialize_metadata_pointer(ret.ixs[2])
    /\ is_update_field(ret.ixs[6]) /\ is_update_field(ret.ixs[7])
    /\ call.args.mint # call.args.payer

\* the text create_metadata_ix is given for a mint key
MintText(key) ==
    CHOOSE s \in AddrText : Pubkey_from_str(s).ok /\ Pubkey_from_str(s).key = key

\* The call that was made, paired with the other function's result for the
\* same mint, payer, name, symbol, uri and immutable flag: f is what
\* create_fungible_ix returns, m what create_metadata_ix returns.
SameInputPairs ==
    CASE call.fn = "create_fungible_ix" ->
           {[f |-> ret.ixs[1],
             m |-> create_metadata_ix(
                       [mint |-> MintText(call.args.mint),
                        metadata |-> call.args.metadata,
                        immutable |-> call.args.immutable,
                        payer |-> call.args.payer]).ixs[1],
             mint |-> call.args.mint, metadata |-> call.args.metadata,
             immutable |-> call.args.immutable, decimals |-> call.args.decimals]}
      [] call.fn = "create_metadata_ix" /\ ~ret.panicked ->
           {[f |-> create_fungible_ix(
                       [mint |-> Pubkey_from_str(call.args.mint).key,
                        metadata |-> call.args.metadata, decimals |-> decimals,
                        immutable |-> call.args.immutable,
                        payer |-> call.args.payer]).ixs[1],
             m |-> ret.ixs[1],
             mint |-> Pubkey_from_str(call.args.mint).key,
             metadata |-> call.args.metadata,
             immutable |-> call.args.immutable, decimals |-> decimals]
            : decimals \in Decimals}
      [] OTHER -> {}

====
